---- MODULE Spec2Model ----
(***************************************************************************)
(* Verification model of the retrieval core of agentM:                     *)
(*   - FaissVectorStorage (agent/tool/local_search/RAG/faiss_build.py)     *)
(*   - KVStorage (agent/tools_agent/tools/local_search/RAG/kv_storage.py)  *)
(*   - warmup_vanilla_rag (agent/tool/local_search/RAG/rag_main.py)        *)
(*                                                                         *)
(* The storages run as coroutines on one asyncio event loop: a coroutine   *)
(* keeps the loop until it reaches an await that really suspends.  `cur`   *)
(* is the coroutine that holds the loop.  The warmup manager is called     *)
(* from threads and is modelled with thread interleaving at the borders of *)
(* its `with _warmup_lock` blocks.                                         *)
(***************************************************************************)
EXTENDS Integers, Sequences, FiniteSets, TLC

(***************************************************************************)
(* Bounds of the model.                                                    *)
(***************************************************************************)
MaxSlots == 3
MaxBatch == 2
MaxTime == 2
MaxAttempts == 3

(***************************************************************************)
(* Program constants.                                                      *)
(***************************************************************************)
Dim == 1024
ImageDim == 512
TopK == 10

(***************************************************************************)
(* Values.                                                                 *)
(***************************************************************************)
NoVal == "none"
NoTask == "no_task"
NoSlot == -1
NoTaskHandle == 0
Tasks == {"t1", "t2"}
StaleDim == Dim \div 2
Contents == {"v1", "v2"}
Keys == {"a", "b", "c", "p"}

Min(S) == CHOOSE x \in S : \A y \in S : x <= y

Range(s) == {s[i] : i \in 1..Len(s)}

\* direction of the embedding of a text; equal texts embed equally
DirOf(c) == CASE c = "v1" -> 1 [] c = "v2" -> 2 [] OTHER -> 3

Embed(c) == [d |-> Dim, dir |-> DirOf(c)]

\* faiss.normalize_L2 keeps the direction of a vector
NormalizeL2(v) == v

\* cosine_similarity_threshold, in tenths
Threshold == 4

\* a threshold the filter would apply as an exclusive bound
ExclusiveBound(dist) == dist <= Threshold

\* line 231: the test that drops a candidate for its score
BelowThreshold(dist) == dist < Threshold

\* cosine similarity on normalized vectors, in tenths: equal texts have 1.0,
\* "v1" and "v2" are orthogonal, and the text "q" lies at exactly the
\* threshold from "v1" and a tenth below it from "v2"
Similarity(u, v) ==
    CASE u.dir = v.dir -> 10
      [] {u.dir, v.dir} = {1, 3} -> Threshold
      [] {u.dir, v.dir} = {2, 3} -> Threshold - 1
      [] OTHER -> 0

Mk(id, content, sid) ==
    [id |-> id, content |-> content, source_id |-> sid, source_path |-> "p"]

\* the records callers upsert
Records ==
    { Mk("a", "v1", NoVal), Mk("a", "v2", NoVal), Mk("b", "v1", NoVal),
      Mk("b", "v1", "a"), Mk("c", "v1", NoVal) }

IdsOf(data) == {data[i].id : i \in 1..Len(data)}

\* a dict of records in insertion order: keys are distinct
UpsertInputs ==
    { d \in UNION {[1..n -> Records] : n \in 0..MaxBatch} :
        \A i, j \in 1..Len(d) : i # j => d[i].id # d[j].id }

\* a list of distinct IDs
DeleteInputs ==
    { d \in UNION {[1..n -> Keys] : n \in 0..MaxBatch} :
        \A i, j \in 1..Len(d) : i # j => d[i] # d[j] }

(***************************************************************************)
(* The metadata table _id_to_meta is a Python dict: a sequence of entries  *)
(* [k |-> slot, m |-> meta] in insertion order with distinct keys.         *)
(***************************************************************************)
MetaOf(rec, vec) ==
    [id |-> rec.id, content |-> rec.content, source_id |-> rec.source_id,
     source_path |-> rec.source_path, vector |-> vec]

KeysOf(table) == {table[i].k : i \in 1..Len(table)}

IdSeq(table) == [i \in 1..Len(table) |-> table[i].m.id]

HasKey(table, k) == k \in KeysOf(table)

DictGet(table, k) ==
    (CHOOSE e \in Range(table) : e.k = k).m

\* dict.update({k: m}): an existing key keeps its position
DictUpdate(table, k, m) ==
    IF HasKey(table, k)
    THEN [i \in 1..Len(table) |->
            IF table[i].k = k THEN [k |-> k, m |-> m] ELSE table[i]]
    ELSE Append(table, [k |-> k, m |-> m])

Matches(m, custom_id) ==
    \/ m.id = custom_id
    \/ m.source_path = custom_id
    \/ m.source_id = custom_id

_find_faiss_id(table, custom_id) ==
    LET hits == {i \in 1..Len(table) : Matches(table[i].m, custom_id)}
    IN  IF hits = {} THEN NoSlot ELSE table[Min(hits)].k

get_by_id(table, id) ==
    LET fid == _find_faiss_id(table, id)
    IN  IF fid = NoSlot
        THEN [kind |-> "none", val |-> <<>>]
        ELSE [kind |-> "rec",
              val |-> [id |-> DictGet(table, fid).id,
                       content |-> DictGet(table, fid).content]]

_create_hnsw_index == [d |-> Dim, vecs |-> <<>>]

ntotal(ix) == Len(ix.vecs)

\* keep = [fid for fid in self._id_to_meta if fid not in faiss_ids]
KeepEntries(table, faiss_ids) ==
    SelectSeq(table, LAMBDA e : e.k \notin faiss_ids)

NewIdToMeta(keep) == [i \in 1..Len(keep) |-> [k |-> i - 1, m |-> keep[i].m]]

VectorKeep(keep) == [i \in 1..Len(keep) |-> keep[i].m.vector]

\* index.add raises when the rows do not have the dimension of the index
AddRaises(ix, vecs) == \E i \in 1..Len(vecs) : vecs[i].d # ix.d

IndexAdd(ix, vecs) == [d |-> ix.d, vecs |-> ix.vecs \o vecs]

(***************************************************************************)
(* Persisted files: the index blob and the JSON sidecar, whose keys are    *)
(* the slots written as strings.                                           *)
(***************************************************************************)
Digits == <<"0", "1", "2", "3", "4", "5", "6", "7", "8", "9">>

StrOfInt(k) == Digits[k + 1]

IntOfStr(s) == (CHOOSE i \in 1..Len(Digits) : Digits[i] = s) - 1

JsonDump(table) ==
    [i \in 1..Len(table) |-> [k |-> StrOfInt(table[i].k), m |-> table[i].m]]

JsonLoad(box) ==
    [i \in 1..Len(box) |-> [k |-> IntOfStr(box[i].k), m |-> box[i].m]]

StaleVec(c) == [d |-> StaleDim, dir |-> Embed(c).dir]

\* what a previous process left on disk: nothing, a store of the declared
\* dimension, or a store written with another embedding dimension
NoIndexFile == [exists |-> FALSE, d |-> 0, vecs |-> <<>>]

NoMetaFile == [exists |-> FALSE, box |-> <<>>]

\* faiss.write_index
WriteIndex(ix) == [exists |-> TRUE, d |-> ix.d, vecs |-> ix.vecs]

\* json.dump of the sidecar
WriteMeta(table) == [exists |-> TRUE, box |-> JsonDump(table)]

DiskInits ==
    { [ix |-> NoIndexFile, meta |-> NoMetaFile],
      [ix |-> WriteIndex([d |-> Dim, vecs |-> <<Embed("v1")>>]),
       meta |-> WriteMeta(<<[k |-> 0, m |-> MetaOf(Mk("a", "v1", NoVal), Embed("v1"))]>>)],
      [ix |-> WriteIndex([d |-> StaleDim, vecs |-> <<StaleVec("v1"), StaleVec("v1")>>]),
       meta |-> WriteMeta(<<[k |-> 0, m |-> MetaOf(Mk("a", "v1", NoVal), StaleVec("v1"))],
                            [k |-> 1, m |-> MetaOf(Mk("b", "v1", NoVal), StaleVec("v1"))]>>)] }

\* FaissVectorStorage.initialize: the state loaded from the files
LoadIndex(dix) ==
    IF ~dix.exists THEN _create_hnsw_index
    ELSE IF dix.d # Dim THEN _create_hnsw_index ELSE [d |-> dix.d, vecs |-> dix.vecs]

LoadMeta(dix, dmeta) ==
    IF ~dix.exists THEN <<>>
    ELSE IF ~dmeta.exists THEN <<>> ELSE JsonLoad(dmeta.box)

(***************************************************************************)
(* State.                                                                  *)
(***************************************************************************)
VARIABLES
    index,        \* FaissVectorStorage._index
    id_to_meta,   \* FaissVectorStorage._id_to_meta
    lock,         \* FaissVectorStorage.lock: the holder, or NoTask
    disk_index,   \* <namespace>_faiss.index
    disk_meta,    \* <namespace>_faiss.index.meta.json
    pc,           \* position of each coroutine
    op,           \* the operation each coroutine executes
    loc,          \* local variables of each coroutine
    ret,          \* value returned by the operation of each coroutine
    cur,          \* coroutine that holds the event loop, or NoTask
    pair,         \* history: two upserts in flight together, and the table they met
    store,        \* the storage instance the coroutines call: a text index, "image", a KV store, ...
    kv_data,      \* KVStorage._data
    kv_lock,      \* KVStorage._storage_lock: the holder, or NoTask
    now,          \* int(time.time())
    kv_file,      \* KVStorage._file_name: the JSON file of the namespace
    _warmup_task,        \* rag_main._warmup_task: the scheduled attempt, or NoTaskHandle
    _warmup_complete,    \* rag_main._warmup_complete
    _warmup_in_progress, \* rag_main._warmup_in_progress
    w_pc,         \* position of each caller of warmup_vanilla_rag
    w_loop,       \* whether the thread of each caller runs an event loop
    w_task,       \* the local `task` of each call
    w_ret,        \* what the call of each caller returned
    runner,       \* the _runner coroutine of each attempt
    _model,       \* _BgeM3Embedder._model / clipembedder._model: loaded or None
    _load_lock,   \* _BgeM3Embedder._load_lock / clipembedder.lock: the holder, or NoTask
    loads,        \* history: how often _load of each embedder has been executed
    call,         \* the function under study and the arguments it was called with
    result,       \* what that call returned, once it has returned
    image_index,        \* VanillaRAG.image_vector_storage._index
    image_id_to_meta,   \* VanillaRAG.image_vector_storage._id_to_meta
    image_disk_index,   \* the index file of the image store
    image_disk_meta,    \* the metadata file of the image store
    run,          \* per coroutine: the payloads of its build_from_shards run and
                  \* history: the upserts and commit callbacks the run has made
    loaded        \* history: whether VanillaRAG.initialize has loaded the stores

viVars == <<index, id_to_meta, lock, disk_index, disk_meta>>

kvVars == <<kv_data, kv_lock, now, kv_file>>

warmVars == <<_warmup_task, _warmup_complete, _warmup_in_progress,
              w_pc, w_loop, w_task, w_ret, runner>>

embedVars == <<_model, _load_lock, loads>>

pipeVars == <<image_index, image_id_to_meta, image_disk_index, image_disk_meta, run, loaded>>

ragVars == <<call, result, pipeVars>>

storeVars == <<index, id_to_meta, lock, disk_index, disk_meta, pc, op, loc, ret, cur,
               pair, store, kv_data, kv_lock, now, kv_file>>

vars == <<index, id_to_meta, lock, disk_index, disk_meta, pc, op, loc, ret, cur,
          pair, store, kv_data, kv_lock, now, kv_file,
          _warmup_task, _warmup_complete, _warmup_in_progress,
          w_pc, w_loop, w_task, w_ret, runner, _model, _load_lock, loads,
          call, result,
          image_index, image_id_to_meta, image_disk_index, image_disk_meta, run, loaded>>

LocInit ==
    [data |-> <<>>, emb |-> <<>>, ids |-> <<>>, faiss_ids |-> {},
     new_id_to_meta |-> <<>>, vector_keep |-> <<>>,
     pre_ntotal |-> 0, pre_table |-> <<>>, qv |-> Embed("v1"), top_k |-> TopK, q_kind |-> NoVal,
     kv_in |-> <<>>, pre_kv |-> <<>>, embedder |-> NoVal]

RetNone == [kind |-> "none", val |-> <<>>]
RetRaised == [kind |-> "raised", val |-> <<>>]

\* an event loop that also switches coroutines when the free lock is acquired
YieldsAtLock(point) == point \in {"embed", "lock"}

\* which await points hand the loop to another coroutine: the embedding
\* call runs in the executor; acquiring the free asyncio.Lock and awaiting
\* get_index() return without suspending
Yields(point) == point = "embed"

After(t, point) == IF Yields(point) THEN NoTask ELSE t

Runs(t) == cur \in {NoTask, t}

\* a coroutine that can start an operation
Idle(t) == pc[t] = "idle" /\ Runs(t)

\* the text index; under "text" its queries are exercised with every top_k
\* and with a text of its own
VectorStores == {"vector", "text"}

QueryTexts == Contents \cup {"q"}

TopKs == {1, TopK}

QueryTextsOf(s) == IF s = "vector" THEN Contents ELSE QueryTexts

TopKsOf(s) == IF s = "vector" THEN {TopK} ELSE TopKs

NoPair == [active |-> FALSE, base |-> <<>>, ids |-> {}, disjoint |-> FALSE,
           left |-> 0, raised |-> FALSE]

KVKeys == {"a", "b", "c"}

\* threads that call warmup_vanilla_rag
Callers == {"c1", "c2"}

Attempts == 1..MaxAttempts

NoRunner == [st |-> "unused", owner |-> NoVal, sync |-> FALSE, exc |-> FALSE,
             after_complete |-> FALSE, left |-> <<>>]

NoRet == [kind |-> "none", val |-> NoTaskHandle, via |-> NoVal, live |-> FALSE,
          complete |-> FALSE]

\* a key that is not in the dict
Absent == [present |-> FALSE, content |-> NoVal, create_time |-> 0,
           has_create_time |-> FALSE, update_time |-> 0]

\* kv_store_<namespace>.json does not exist
NoKVFile == [exists |-> FALSE, data |-> [k \in KVKeys |-> Absent]]

\* a string with an unpaired surrogate (U+D800 after "v1")
Dirty == "v1\\ud800"

\* lines 7-28 of json_process.py: the characters matched by
\* _SURROGATE_PATTERN are removed, other strings are returned as they are
_sanitize_string_for_json(text) == IF text = Dirty THEN "v1" ELSE text

\* lines 54-83 of json_process.py, on the map of the store
_sanitize_for_encoding(d) ==
    [k \in KVKeys |-> [d[k] EXCEPT !.content = _sanitize_string_for_json(@)]]

\* a writer that never reports a sanitized write
NeverReload(d) == FALSE

\* lines 118-129 of json_process.py: the utf-8 file refuses a lone surrogate
\* (UnicodeEncodeError), the write is repeated with the sanitizing encoder
\* and write_json returns True
needs_reload(d) ==
    \E k \in KVKeys : d[k].present /\ d[k].content # _sanitize_string_for_json(d[k].content)

\* lines 97-129 of json_process.py: the file after write_json
write_json(d) ==
    [exists |-> TRUE,
     data |-> IF \E k \in KVKeys : d[k].present /\ d[k].content = Dirty
              THEN _sanitize_for_encoding(d) ELSE d]

\* lines 90-94 of json_process.py, with the "or {}" of the caller
load_json(f) == IF f.exists THEN f.data ELSE [k \in KVKeys |-> Absent]

\* the two embedders: _EMBEDDER and _IMAGE_EMBEDDER
Embedders == {"text", "image"}

\* the embedders after construction: no model, lock free
EmbedInit ==
    /\ _model = [e \in Embedders |-> FALSE]
    /\ _load_lock = [e \in Embedders |-> NoTask]
    /\ loads = [e \in Embedders |-> 0]

NoCall == [fn |-> NoVal]

NoResult == [done |-> FALSE]

\* image_faiss_build.py lines 57-65
ImgCreateIndex == [d |-> ImageDim, vecs |-> <<>>]

NoRun == [chunks |-> <<>>, images |-> <<>>, events |-> <<>>]

\* the image store after construction, no build_from_shards run made
PipeIdle ==
    /\ image_index = ImgCreateIndex
    /\ image_id_to_meta = <<>>
    /\ image_disk_index = NoIndexFile
    /\ image_disk_meta = NoMetaFile
    /\ run = [t \in Tasks |-> NoRun]
    /\ loaded = "never"

\* no pure function is under study
RagInit ==
    /\ call = NoCall
    /\ result = NoResult
    /\ PipeIdle

\* the warmup manager after the module is imported (lines 503-507)
WarmInit ==
    /\ _warmup_task = NoTaskHandle
    /\ _warmup_complete = FALSE
    /\ _warmup_in_progress = FALSE
    /\ w_pc = [c \in Callers |-> "idle"]
    /\ w_task = [c \in Callers |-> NoTaskHandle]
    /\ w_ret = [c \in Callers |-> NoRet]
    /\ runner = [r \in Attempts |-> NoRunner]

Init ==
    /\ WarmInit
    /\ EmbedInit
    /\ RagInit
    /\ w_loop = [c \in Callers |-> FALSE]
    /\ store \in {"vector", "kv"}
    /\ \E d \in DiskInits :
        /\ store = "kv" => ~d.ix.exists
        /\ disk_index = d.ix
        /\ disk_meta = d.meta
        /\ index = LoadIndex(d.ix)
        /\ id_to_meta = LoadMeta(d.ix, d.meta)
    /\ lock = NoTask
    /\ pair = NoPair
    /\ kv_data = [k \in KVKeys |-> Absent]
    /\ kv_lock = NoTask
    /\ now = 1
    /\ kv_file = NoKVFile
    /\ pc = [t \in Tasks |-> "idle"]
    /\ op = [t \in Tasks |-> NoVal]
    /\ loc = [t \in Tasks |-> LocInit]
    /\ ret = [t \in Tasks |-> RetNone]
    /\ cur = NoTask

\* _save_faiss_index
Saved(ix, table) == /\ disk_index' = WriteIndex(ix)
                    /\ disk_meta' = WriteMeta(table)

\* records that coroutines suspended in upsert will still append
Pending ==
    LET n(t) == IF op[t] = "upsert" /\ pc[t] # "ret" THEN Len(loc[t].data) ELSE 0
    IN  n("t1") + n("t2")

Size == IF Len(id_to_meta) > ntotal(index) THEN Len(id_to_meta) ELSE ntotal(index)

(***************************************************************************)
(* upsert                                                                  *)
(***************************************************************************)
\* lines 120-141: build the metadata, call the embedding function
UpsertCall(t) ==
    /\ Idle(t)
    /\ store \in VectorStores
    /\ \E data \in UpsertInputs :
        /\ Size + Pending + Len(data) <= MaxSlots
        /\ op' = [op EXCEPT ![t] = "upsert"]
        /\ loc' = [loc EXCEPT ![t] = [LocInit EXCEPT !.data = data]]
        /\ IF data = <<>>
           THEN /\ pc' = [pc EXCEPT ![t] = "ret"]
                /\ ret' = [ret EXCEPT ![t] = [kind |-> "ids", val |-> <<>>]]
                /\ cur' = t
           ELSE /\ pc' = [pc EXCEPT ![t] = "u_embed"]
                /\ ret' = ret
                /\ cur' = After(t, "embed")
        /\ pair' = IF data # <<>> /\ (\E u \in Tasks \ {t} : pc[u] = "u_embed")
                   THEN LET u == CHOOSE u \in Tasks \ {t} : pc[u] = "u_embed"
                        IN  [active |-> TRUE, base |-> IdSeq(id_to_meta),
                             ids |-> IdsOf(data) \cup IdsOf(loc[u].data),
                             disjoint |-> IdsOf(data) \cap IdsOf(loc[u].data) = {},
                             left |-> 2, raised |-> FALSE]
                   ELSE NoPair
        /\ UNCHANGED <<store, ragVars, warmVars, embedVars, kv_data, kv_lock, now, kv_file, index, id_to_meta, lock, disk_index, disk_meta>>

\* lines 154-162: slots of the entries the incoming IDs resolve to
NeedRemove(table, data) ==
    {_find_faiss_id(table, data[i].id) : i \in 1..Len(data)} \ {NoSlot}

\* an upsert that removes the entries of the incoming IDs before it compares
\* the counts
UpsertEmbeddedRemovesFirst(t, count_ok) ==
    /\ pc[t] = "u_embed" /\ Runs(t)
    /\ IF count_ok
       THEN /\ loc' = [loc EXCEPT ![t].emb =
                        [i \in 1..Len(loc[t].data) |->
                            NormalizeL2(Embed(loc[t].data[i].content))]]
            /\ pc' = [pc EXCEPT ![t] = "u_scan"]
            /\ ret' = ret
            /\ UNCHANGED <<index, id_to_meta, disk_index, disk_meta>>
       ELSE /\ loc' = loc
            /\ pc' = [pc EXCEPT ![t] = "ret"]
            /\ ret' = [ret EXCEPT ![t] = [kind |-> "ids", val |-> <<>>]]
            /\ LET keep == KeepEntries(id_to_meta, NeedRemove(id_to_meta, loc[t].data))
               IN  /\ index' = IndexAdd(_create_hnsw_index, VectorKeep(keep))
                   /\ id_to_meta' = NewIdToMeta(keep)
                   /\ Saved(index', id_to_meta')
    /\ cur' = t
    /\ pair' = IF count_ok THEN pair ELSE NoPair
    /\ UNCHANGED <<store, ragVars, warmVars, embedVars, kv_data, kv_lock, now, kv_file, lock, op>>

\* lines 141-152: the embeddings arrive; a wrong count aborts the upsert
UpsertEmbedded(t, count_ok) ==
    /\ pc[t] = "u_embed" /\ Runs(t)
    /\ IF count_ok
       THEN /\ loc' = [loc EXCEPT ![t].emb =
                        [i \in 1..Len(loc[t].data) |->
                            NormalizeL2(Embed(loc[t].data[i].content))]]
            /\ pc' = [pc EXCEPT ![t] = "u_scan"]
            /\ ret' = ret
       ELSE /\ loc' = loc
            /\ pc' = [pc EXCEPT ![t] = "ret"]
            /\ ret' = [ret EXCEPT ![t] = [kind |-> "ids", val |-> <<>>]]
    /\ cur' = t
    /\ pair' = IF count_ok THEN pair ELSE NoPair
    /\ UNCHANGED <<store, ragVars, warmVars, embedVars, kv_data, kv_lock, now, kv_file, index, id_to_meta, lock, disk_index, disk_meta, op>>

UpsertScan(t) ==
    /\ pc[t] = "u_scan" /\ Runs(t)
    /\ loc' = [loc EXCEPT ![t].faiss_ids = NeedRemove(id_to_meta, loc[t].data),
                          ![t].pre_ntotal = ntotal(index),
                          ![t].pre_table = id_to_meta]
    /\ pc' = [pc EXCEPT ![t] =
                IF NeedRemove(id_to_meta, loc[t].data) # {} THEN "rm_prep" ELSE "u_lock"]
    /\ cur' = After(t, "lock")
    /\ UNCHANGED <<pair, store, ragVars, warmVars, embedVars, kv_data, kv_lock, now, kv_file, index, id_to_meta, lock, disk_index, disk_meta, op, ret>>

\* lines 164-165: async with self.lock, get_index
UpsertAcquire(t) ==
    /\ pc[t] = "u_lock" /\ Runs(t)
    /\ lock = NoTask
    /\ lock' = t
    /\ pc' = [pc EXCEPT ![t] = "u_add"]
    /\ cur' = After(t, "get_index")
    /\ UNCHANGED <<pair, store, ragVars, warmVars, embedVars, kv_data, kv_lock, now, kv_file, index, id_to_meta, disk_index, disk_meta, op, loc, ret>>

\* the table after the loop of lines 169-172
RECURSIVE AddMetas(_, _, _, _, _)
AddMetas(table, data, emb, start_idx, i) ==
    IF i > Len(data) THEN table
    ELSE AddMetas(DictUpdate(table, start_idx + i - 1, MetaOf(data[i], emb[i])),
                  data, emb, start_idx, i + 1)

\* an upsert that records the metadata from slot 0 on
UpsertAddFromZero(t) ==
    /\ pc[t] = "u_add" /\ Runs(t)
    /\ lock = t
    /\ index' = IndexAdd(index, loc[t].emb)
    /\ id_to_meta' = AddMetas(id_to_meta, loc[t].data, loc[t].emb, 0, 1)
    /\ Saved(index', id_to_meta')
    /\ lock' = NoTask
    /\ pc' = [pc EXCEPT ![t] = "ret"]
    /\ ret' = [ret EXCEPT ![t] =
                [kind |-> "ids", val |-> [i \in 1..Len(loc[t].data) |-> loc[t].data[i].id]]]
    /\ cur' = t
    /\ pair' = IF pair.active THEN [pair EXCEPT !.left = pair.left - 1] ELSE pair
    /\ UNCHANGED <<store, ragVars, warmVars, embedVars, kv_data, kv_lock, now, kv_file, op, loc>>

\* lines 166-174: append at ntotal, record slot -> meta, persist, release
UpsertAdd(t) ==
    /\ pc[t] = "u_add" /\ Runs(t)
    /\ lock = t
    /\ index' = IndexAdd(index, loc[t].emb)
    /\ id_to_meta' = AddMetas(id_to_meta, loc[t].data, loc[t].emb, ntotal(index), 1)
    /\ Saved(index', id_to_meta')
    /\ lock' = NoTask
    /\ pc' = [pc EXCEPT ![t] = "ret"]
    /\ ret' = [ret EXCEPT ![t] =
                [kind |-> "ids", val |-> [i \in 1..Len(loc[t].data) |-> loc[t].data[i].id]]]
    /\ cur' = t
    /\ pair' = IF pair.active THEN [pair EXCEPT !.left = pair.left - 1] ELSE pair
    /\ UNCHANGED <<store, ragVars, warmVars, embedVars, kv_data, kv_lock, now, kv_file, op, loc>>

(***************************************************************************)
(* _remove_faiss_ids, called by upsert and delete                          *)
(***************************************************************************)
\* lines 193-201: survivors and their new slots, computed before the lock
RemovePrep(t) ==
    /\ pc[t] = "rm_prep" /\ Runs(t)
    /\ LET keep == KeepEntries(id_to_meta, loc[t].faiss_ids)
       IN  loc' = [loc EXCEPT ![t].new_id_to_meta = NewIdToMeta(keep),
                              ![t].vector_keep = VectorKeep(keep)]
    /\ pc' = [pc EXCEPT ![t] = "rm_lock"]
    /\ cur' = After(t, "lock")
    /\ UNCHANGED <<pair, store, ragVars, warmVars, embedVars, kv_data, kv_lock, now, kv_file, index, id_to_meta, lock, disk_index, disk_meta, op, ret>>

\* lines 203-204: take the lock, replace the index by an empty one
RemoveAcquire(t) ==
    /\ pc[t] = "rm_lock" /\ Runs(t)
    /\ lock = NoTask
    /\ lock' = t
    /\ index' = _create_hnsw_index
    /\ pc' = [pc EXCEPT ![t] = "rm_body"]
    /\ cur' = t
    /\ UNCHANGED <<pair, store, ragVars, warmVars, embedVars, kv_data, kv_lock, now, kv_file, id_to_meta, disk_index, disk_meta, op, loc, ret>>

\* lines 205-211: re-add the survivors, swap the table, persist, release;
\* rows of another dimension make index.add raise out of the coroutine
RemoveBody(t) ==
    /\ pc[t] = "rm_body" /\ Runs(t)
    /\ lock = t
    /\ lock' = NoTask
    /\ cur' = IF op[t] = "upsert" /\ ~AddRaises(index, loc[t].vector_keep)
              THEN After(t, "lock") ELSE t
    /\ IF AddRaises(index, loc[t].vector_keep)
       THEN /\ pc' = [pc EXCEPT ![t] = "ret"]
            /\ ret' = [ret EXCEPT ![t] = RetRaised]
            /\ UNCHANGED <<index, id_to_meta, disk_index, disk_meta>>
       ELSE /\ index' = IndexAdd(index, [i \in 1..Len(loc[t].vector_keep) |->
                                            NormalizeL2(loc[t].vector_keep[i])])
            /\ id_to_meta' = loc[t].new_id_to_meta
            /\ Saved(index', id_to_meta')
            /\ pc' = [pc EXCEPT ![t] = IF op[t] = "upsert" THEN "u_lock" ELSE "ret"]
            /\ ret' = [ret EXCEPT ![t] = IF op[t] = "upsert" THEN ret[t] ELSE RetNone]
    /\ pair' = IF pair.active /\ AddRaises(index, loc[t].vector_keep)
               THEN [pair EXCEPT !.raised = TRUE] ELSE pair
    /\ UNCHANGED <<store, ragVars, warmVars, embedVars, kv_data, kv_lock, now, kv_file, op, loc>>

(***************************************************************************)
(* delete                                                                  *)
(***************************************************************************)
ToRemove(table, ids) ==
    {_find_faiss_id(table, ids[i]) : i \in 1..Len(ids)} \ {NoSlot}

\* lines 252-261
DeleteCall(t) ==
    /\ Idle(t)
    /\ store \in VectorStores
    /\ \E ids \in DeleteInputs :
        /\ op' = [op EXCEPT ![t] = "delete"]
        /\ loc' = [loc EXCEPT ![t] = [LocInit EXCEPT !.ids = ids,
                                                     !.faiss_ids = ToRemove(id_to_meta, ids),
                                                     !.pre_ntotal = ntotal(index),
                                                     !.pre_table = id_to_meta]]
        /\ pc' = [pc EXCEPT ![t] = IF ToRemove(id_to_meta, ids) # {} THEN "rm_prep" ELSE "ret"]
        /\ ret' = [ret EXCEPT ![t] = RetNone]
        /\ cur' = t
        /\ pair' = NoPair
        /\ UNCHANGED <<store, ragVars, warmVars, embedVars, kv_data, kv_lock, now, kv_file, index, id_to_meta, lock, disk_index, disk_meta>>

(***************************************************************************)
(* drop, index_done_callback, initialize                                   *)
(***************************************************************************)
\* line 322
DropAcquire(t) ==
    /\ Idle(t)
    /\ store \in VectorStores
    /\ lock = NoTask
    /\ lock' = t
    /\ op' = [op EXCEPT ![t] = "drop"]
    /\ loc' = [loc EXCEPT ![t] = LocInit]
    /\ pc' = [pc EXCEPT ![t] = "drop_body"]
    /\ cur' = t
    /\ pair' = NoPair
    /\ UNCHANGED <<store, ragVars, warmVars, embedVars, kv_data, kv_lock, now, kv_file, index, id_to_meta, disk_index, disk_meta, ret>>

\* lines 323-332
DropBody(t) ==
    /\ pc[t] = "drop_body" /\ Runs(t)
    /\ lock = t
    /\ index' = _create_hnsw_index
    /\ id_to_meta' = <<>>
    /\ disk_index' = NoIndexFile
    /\ disk_meta' = NoMetaFile
    /\ lock' = NoTask
    /\ pc' = [pc EXCEPT ![t] = "ret"]
    /\ ret' = [ret EXCEPT ![t] = [kind |-> "status", val |-> "success"]]
    /\ cur' = t
    /\ UNCHANGED <<pair, store, ragVars, warmVars, embedVars, kv_data, kv_lock, now, kv_file, op, loc>>

\* lines 275-277
IndexDoneCallback(t) ==
    /\ Idle(t)
    /\ store \in VectorStores
    /\ lock = NoTask
    /\ Saved(index, id_to_meta)
    /\ op' = [op EXCEPT ![t] = "index_done_callback"]
    /\ loc' = [loc EXCEPT ![t] = LocInit]
    /\ pc' = [pc EXCEPT ![t] = "ret"]
    /\ ret' = [ret EXCEPT ![t] = RetNone]
    /\ cur' = t
    /\ UNCHANGED <<pair, store, ragVars, warmVars, embedVars, kv_data, kv_lock, now, kv_file, index, id_to_meta, lock>>

\* lines 70-95, as VanillaRAG.initialize calls it
Initialize(t) ==
    /\ Idle(t)
    /\ store \in VectorStores
    /\ index' = LoadIndex(disk_index)
    /\ id_to_meta' = LoadMeta(disk_index, disk_meta)
    /\ op' = [op EXCEPT ![t] = "initialize"]
    /\ loc' = [loc EXCEPT ![t] = LocInit]
    /\ pc' = [pc EXCEPT ![t] = "ret"]
    /\ ret' = [ret EXCEPT ![t] = RetNone]
    /\ cur' = t
    /\ pair' = NoPair
    /\ UNCHANGED <<store, ragVars, warmVars, embedVars, kv_data, kv_lock, now, kv_file, lock, disk_index, disk_meta>>

(***************************************************************************)
(* query, get_by_id                                                        *)
(***************************************************************************)
\* lines 215-221: a supplied embedding skips the embedding call
QueryCall(t) ==
    /\ Idle(t)
    /\ store \in VectorStores
    /\ \E text \in QueryTextsOf(store), top_k \in TopKsOf(store), has_embedding \in BOOLEAN :
        /\ op' = [op EXCEPT ![t] = "query"]
        /\ loc' = [loc EXCEPT ![t] = [LocInit EXCEPT !.qv = NormalizeL2(Embed(text)),
                                                     !.top_k = top_k,
                                                     !.q_kind = "given"]]
        /\ pc' = [pc EXCEPT ![t] = IF has_embedding THEN "q_search" ELSE "q_embed"]
        /\ cur' = IF has_embedding THEN t ELSE After(t, "embed")
        /\ UNCHANGED <<pair, store, ragVars, warmVars, embedVars, kv_data, kv_lock, now, kv_file, index, id_to_meta, lock, disk_index, disk_meta, ret>>

QueryEmbedded(t) ==
    /\ pc[t] = "q_embed" /\ Runs(t)
    /\ pc' = [pc EXCEPT ![t] = "q_search"]
    /\ cur' = t
    /\ UNCHANGED <<pair, store, ragVars, warmVars, embedVars, kv_data, kv_lock, now, kv_file, index, id_to_meta, lock, disk_index, disk_meta, op, loc, ret>>

\* index.search(embedding, k=top_k): the k nearest slots, best first, and
\* the sentinel -1 where the index has fewer than k vectors
RECURSIVE Nearest(_, _, _, _)
Nearest(ix, qv, left, k) ==
    IF k = 0 THEN <<>>
    ELSE IF left = {} THEN [i \in 1..k |-> [idx |-> NoSlot, dist |-> -1]]
    ELSE LET b == CHOOSE i \in left : \A j \in left :
                    \/ Similarity(ix.vecs[i], qv) > Similarity(ix.vecs[j], qv)
                    \/ Similarity(ix.vecs[i], qv) = Similarity(ix.vecs[j], qv) /\ i <= j
         IN  <<[idx |-> b - 1, dist |-> Similarity(ix.vecs[b], qv)]>>
                \o Nearest(ix, qv, left \ {b}, k - 1)

Search(ix, qv, k) == Nearest(ix, qv, 1..ntotal(ix), k)

\* lines 234-243: the entry of the result for a candidate
Hit(table, c) ==
    IF HasKey(table, c.idx)
    THEN [id |-> DictGet(table, c.idx).id, content |-> DictGet(table, c.idx).content,
          slot |-> c.idx, distance |-> c.dist]
    ELSE [id |-> "", content |-> NoVal, slot |-> c.idx, distance |-> c.dist]

\* lines 226-244
QueryResults(ix, table, qv, k) ==
    LET cands == SelectSeq(Search(ix, qv, k),
                           LAMBDA c : ~(c.idx = NoSlot \/ BelowThreshold(c.dist)))
    IN  [i \in 1..Len(cands) |-> Hit(table, cands[i])]

\* lines 223-244: no lock is taken
QuerySearch(t) ==
    /\ pc[t] = "q_search" /\ Runs(t)
    /\ ret' = [ret EXCEPT ![t] =
                [kind |-> "hits", val |-> QueryResults(index, id_to_meta, loc[t].qv, loc[t].top_k)]]
    /\ pc' = [pc EXCEPT ![t] = "ret"]
    /\ cur' = t
    /\ UNCHANGED <<pair, store, ragVars, warmVars, embedVars, kv_data, kv_lock, now, kv_file, index, id_to_meta, lock, disk_index, disk_meta, op, loc>>

\* lines 279-293
GetById(t) ==
    /\ Idle(t)
    /\ store \in VectorStores
    /\ \E id \in Keys :
        /\ op' = [op EXCEPT ![t] = "get_by_id"]
        /\ loc' = [loc EXCEPT ![t] = [LocInit EXCEPT !.ids = <<id>>]]
        /\ ret' = [ret EXCEPT ![t] = get_by_id(id_to_meta, id)]
        /\ pc' = [pc EXCEPT ![t] = "ret"]
        /\ cur' = t
        /\ UNCHANGED <<pair, store, ragVars, warmVars, embedVars, kv_data, kv_lock, now, kv_file, index, id_to_meta, lock, disk_index, disk_meta>>

\* the coroutine finishes and the caller takes its result
Return(t) ==
    /\ pc[t] = "ret" /\ Runs(t)
    /\ pc' = [pc EXCEPT ![t] = "idle"]
    /\ op' = [op EXCEPT ![t] = NoVal]
    /\ loc' = [loc EXCEPT ![t] = LocInit]
    /\ ret' = [ret EXCEPT ![t] = RetNone]
    /\ cur' = NoTask
    /\ pair' = IF pair.active /\ (pair.left = 0 \/ pair.raised) THEN NoPair ELSE pair
    /\ UNCHANGED <<store, ragVars, warmVars, embedVars, kv_data, kv_lock, now, kv_file, index, id_to_meta, lock, disk_index, disk_meta>>

(***************************************************************************)
(* KVStorage                                                               *)
(***************************************************************************)
KVUpsertInputs ==
    { d \in UNION {[1..n -> [k : KVKeys, content : Contents]] : n \in 0..MaxBatch} :
        \A i, j \in 1..Len(d) : i # j => d[i].k # d[j].k }

\* the store with its backing file is exercised on two keys, with values
\* that do and do not need sanitizing
KVStores == {"kv", "kvfile", "kvcache"}

\* the stores with a backing file: a namespace that does not end in "_cache"
\* and one that does (kv_storage.py line 186)
KVFileStores == {"kvfile", "kvcache"}

KVFileKeys == {"a", "b"}

KVUpsertInputsOf(s) ==
    IF s = "kv" THEN KVUpsertInputs
    ELSE { d \in UNION {[1..n -> [k : KVFileKeys, content : {"v1", Dirty}]] : n \in 0..MaxBatch} :
            \A i, j \in 1..Len(d) : i # j => d[i].k # d[j].k }

KVKeysOf(d) == {k \in KVKeys : d[k].present}

\* lines 113-121
KVUpsertCall(t) ==
    /\ Idle(t)
    /\ store \in KVStores
    /\ \E data \in KVUpsertInputsOf(store) :
        /\ op' = [op EXCEPT ![t] = "kv_upsert"]
        /\ loc' = [loc EXCEPT ![t] = [LocInit EXCEPT !.kv_in = data]]
        /\ pc' = [pc EXCEPT ![t] = IF data = <<>> THEN "ret" ELSE "kv_lock"]
        /\ ret' = [ret EXCEPT ![t] = RetNone]
        /\ cur' = IF data = <<>> THEN t ELSE After(t, "lock")
        /\ UNCHANGED <<viVars, kvVars, pair, store, ragVars, warmVars, embedVars>>

\* async with self._storage_lock
KVAcquire(t) ==
    /\ pc[t] = "kv_lock" /\ Runs(t)
    /\ kv_lock = NoTask
    /\ kv_lock' = t
    /\ pc' = [pc EXCEPT ![t] = "kv_body"]
    /\ cur' = t
    /\ UNCHANGED <<viVars, kv_data, now, kv_file, pair, store, ragVars, warmVars, embedVars, op, loc, ret>>

\* the value lines 125-136 leave in data[k]: create_time is set only for a new key
Stamped(d, k, content, time) ==
    [present |-> TRUE, content |-> content,
     create_time |-> IF d[k].present THEN 0 ELSE time,
     has_create_time |-> ~d[k].present,
     update_time |-> time]

\* an upsert that also writes the file
KVUpsertBodyPersists(t) ==
    /\ pc[t] = "kv_body" /\ op[t] = "kv_upsert" /\ Runs(t)
    /\ kv_lock = t
    /\ kv_data' = [k \in KVKeys |->
                    IF \E i \in 1..Len(loc[t].kv_in) : loc[t].kv_in[i].k = k
                    THEN LET i == CHOOSE i \in 1..Len(loc[t].kv_in) : loc[t].kv_in[i].k = k
                         IN  Stamped(kv_data, k, loc[t].kv_in[i].content, now)
                    ELSE kv_data[k]]
    /\ kv_file' = write_json(kv_data')
    /\ loc' = [loc EXCEPT ![t].pre_kv = <<kv_data>>]
    /\ kv_lock' = NoTask
    /\ pc' = [pc EXCEPT ![t] = "ret"]
    /\ cur' = t
    /\ UNCHANGED <<viVars, now, pair, store, ragVars, warmVars, embedVars, op, ret>>

\* lines 123-139
KVUpsertBody(t) ==
    /\ pc[t] = "kv_body" /\ op[t] = "kv_upsert" /\ Runs(t)
    /\ kv_lock = t
    /\ kv_data' = [k \in KVKeys |->
                    IF \E i \in 1..Len(loc[t].kv_in) : loc[t].kv_in[i].k = k
                    THEN LET i == CHOOSE i \in 1..Len(loc[t].kv_in) : loc[t].kv_in[i].k = k
                         IN  Stamped(kv_data, k, loc[t].kv_in[i].content, now)
                    ELSE kv_data[k]]
    /\ loc' = [loc EXCEPT ![t].pre_kv = <<kv_data>>]
    /\ kv_lock' = NoTask
    /\ pc' = [pc EXCEPT ![t] = "ret"]
    /\ cur' = t
    /\ UNCHANGED <<viVars, now, kv_file, pair, store, ragVars, warmVars, embedVars, op, ret>>

\* lines 143-146
KVDeleteCall(t) ==
    /\ Idle(t)
    /\ store \in KVStores
    /\ \E ids \in DeleteInputs :
        /\ op' = [op EXCEPT ![t] = "kv_delete"]
        /\ loc' = [loc EXCEPT ![t] = [LocInit EXCEPT !.ids = ids]]
        /\ pc' = [pc EXCEPT ![t] = "kv_lock"]
        /\ ret' = [ret EXCEPT ![t] = RetNone]
        /\ cur' = After(t, "lock")
        /\ UNCHANGED <<viVars, kvVars, pair, store, ragVars, warmVars, embedVars>>

\* lines 146-151
KVDeleteBody(t) ==
    /\ pc[t] = "kv_body" /\ op[t] = "kv_delete" /\ Runs(t)
    /\ kv_lock = t
    /\ kv_data' = [k \in KVKeys |-> IF k \in Range(loc[t].ids) THEN Absent ELSE kv_data[k]]
    /\ kv_lock' = NoTask
    /\ pc' = [pc EXCEPT ![t] = "ret"]
    /\ cur' = t
    /\ UNCHANGED <<viVars, now, kv_file, pair, store, ragVars, warmVars, embedVars, op, loc, ret>>

\* lines 158-161
KVDropCall(t) ==
    /\ Idle(t)
    /\ store \in KVStores
    /\ op' = [op EXCEPT ![t] = "kv_drop"]
    /\ loc' = [loc EXCEPT ![t] = LocInit]
    /\ pc' = [pc EXCEPT ![t] = "kv_lock"]
    /\ ret' = [ret EXCEPT ![t] = RetNone]
    /\ cur' = After(t, "lock")
    /\ UNCHANGED <<viVars, kvVars, pair, store, ragVars, warmVars, embedVars>>

\* lines 162-167
KVDropBody(t) ==
    /\ pc[t] = "kv_body" /\ op[t] = "kv_drop" /\ Runs(t)
    /\ kv_lock = t
    /\ kv_data' = [k \in KVKeys |-> Absent]
    /\ kv_lock' = NoTask
    /\ pc' = [pc EXCEPT ![t] = "ret"]
    /\ ret' = [ret EXCEPT ![t] = [kind |-> "status", val |-> "success"]]
    /\ cur' = t
    /\ UNCHANGED <<viVars, now, kv_file, pair, store, ragVars, warmVars, embedVars, op, loc>>

\* line 78
KVGetByIdCall(t) ==
    /\ Idle(t)
    /\ store \in KVStores
    /\ \E id \in KVKeys :
        /\ op' = [op EXCEPT ![t] = "kv_get_by_id"]
        /\ loc' = [loc EXCEPT ![t] = [LocInit EXCEPT !.ids = <<id>>]]
        /\ pc' = [pc EXCEPT ![t] = "kv_lock"]
        /\ ret' = [ret EXCEPT ![t] = RetNone]
        /\ cur' = After(t, "lock")
        /\ UNCHANGED <<viVars, kvVars, pair, store, ragVars, warmVars, embedVars>>

\* lines 80-87: a copy of the value with the defaults filled in
KVRecord(d, id) ==
    IF d[id].present
    THEN [kind |-> "rec",
          val |-> [id |-> id, content |-> d[id].content,
                   create_time |-> IF d[id].has_create_time THEN d[id].create_time ELSE 0,
                   update_time |-> d[id].update_time]]
    ELSE RetNone

\* lines 79-87
KVGetByIdBody(t) ==
    /\ pc[t] = "kv_body" /\ op[t] = "kv_get_by_id" /\ Runs(t)
    /\ kv_lock = t
    /\ ret' = [ret EXCEPT ![t] = KVRecord(kv_data, loc[t].ids[1])]
    /\ kv_lock' = NoTask
    /\ pc' = [pc EXCEPT ![t] = "ret"]
    /\ cur' = t
    /\ UNCHANGED <<viVars, kv_data, now, kv_file, pair, store, ragVars, warmVars, embedVars, op, loc>>

\* line 41
KVInitializeCall(t) ==
    /\ Idle(t)
    /\ store \in KVFileStores
    /\ op' = [op EXCEPT ![t] = "kv_initialize"]
    /\ loc' = [loc EXCEPT ![t] = LocInit]
    /\ pc' = [pc EXCEPT ![t] = "kv_lock"]
    /\ ret' = [ret EXCEPT ![t] = RetNone]
    /\ cur' = After(t, "lock")
    /\ UNCHANGED <<viVars, kvVars, pair, store, ragVars, warmVars, embedVars>>

\* lines 42-46
KVInitializeBody(t) ==
    /\ pc[t] = "kv_body" /\ op[t] = "kv_initialize" /\ Runs(t)
    /\ kv_lock = t
    /\ kv_data' = load_json(kv_file)
    /\ kv_lock' = NoTask
    /\ pc' = [pc EXCEPT ![t] = "ret"]
    /\ cur' = t
    /\ UNCHANGED <<viVars, now, kv_file, pair, store, ragVars, warmVars, embedVars, op, loc, ret>>

\* line 52
KVIndexDoneCall(t) ==
    /\ Idle(t)
    /\ store \in KVFileStores
    /\ op' = [op EXCEPT ![t] = "kv_index_done"]
    /\ loc' = [loc EXCEPT ![t] = LocInit]
    /\ pc' = [pc EXCEPT ![t] = "kv_lock"]
    /\ ret' = [ret EXCEPT ![t] = RetNone]
    /\ cur' = After(t, "lock")
    /\ UNCHANGED <<viVars, kvVars, pair, store, ragVars, warmVars, embedVars>>

\* lines 53-73: write the map; when it was sanitized, reload it from the file
KVIndexDoneBody(t) ==
    /\ pc[t] = "kv_body" /\ op[t] \in {"kv_index_done", "kv_finalize_cb"} /\ Runs(t)
    /\ kv_lock = t
    /\ kv_file' = write_json(kv_data)
    /\ kv_data' = IF needs_reload(kv_data) THEN load_json(kv_file') ELSE kv_data
    /\ loc' = [loc EXCEPT ![t].pre_kv = <<kv_data>>]
    /\ kv_lock' = NoTask
    /\ pc' = [pc EXCEPT ![t] = "ret"]
    /\ cur' = t
    /\ UNCHANGED <<viVars, now, pair, store, ragVars, warmVars, embedVars, op, ret>>

\* the wall clock advances
Tick ==
    /\ store = "kv"
    /\ now < MaxTime
    /\ now' = now + 1
    /\ UNCHANGED <<viVars, kv_data, kv_lock, kv_file, pair, store, ragVars, warmVars, embedVars, pc, op, loc, ret, cur>>

VectorNext ==
    \E t \in Tasks :
        \/ UpsertCall(t)
        \/ \E count_ok \in BOOLEAN : UpsertEmbedded(t, count_ok)
        \/ UpsertScan(t)
        \/ UpsertAcquire(t)
        \/ UpsertAdd(t)
        \/ RemovePrep(t)
        \/ RemoveAcquire(t)
        \/ RemoveBody(t)
        \/ DeleteCall(t)
        \/ DropAcquire(t)
        \/ DropBody(t)
        \/ IndexDoneCallback(t)
        \/ Initialize(t)
        \/ QueryCall(t)
        \/ QueryEmbedded(t)
        \/ QuerySearch(t)
        \/ GetById(t)

KVNext ==
    \/ \E t \in Tasks :
        \/ KVUpsertCall(t)
        \/ KVAcquire(t)
        \/ KVUpsertBody(t)
        \/ KVDeleteCall(t)
        \/ KVDeleteBody(t)
        \/ KVDropCall(t)
        \/ KVDropBody(t)
        \/ KVGetByIdCall(t)
        \/ KVGetByIdBody(t)
    \/ Tick

\* a store of the namespace left by a previous process
KVFileInits ==
    { NoKVFile,
      [exists |-> TRUE,
       data |-> [k \in KVKeys |-> IF k = "a" THEN Stamped(NoKVFile.data, k, "v1", 1) ELSE Absent]] }

KVFileNext ==
    \E t \in Tasks :
        \/ KVUpsertCall(t)
        \/ KVAcquire(t)
        \/ KVUpsertBody(t)
        \/ KVDeleteCall(t)
        \/ KVDeleteBody(t)
        \/ KVDropCall(t)
        \/ KVDropBody(t)
        \/ KVGetByIdCall(t)
        \/ KVGetByIdBody(t)
        \/ KVInitializeCall(t)
        \/ KVInitializeBody(t)
        \/ KVIndexDoneCall(t)
        \/ KVIndexDoneBody(t)
        \/ Return(t)

\* KVStorage after __post_init__ (lines 27-38): an empty map, whatever the file holds
InitKVOf(modes) ==
    /\ WarmInit
    /\ EmbedInit
    /\ RagInit
    /\ w_loop = [c \in Callers |-> FALSE]
    /\ store \in modes
    /\ disk_index = NoIndexFile
    /\ disk_meta = NoMetaFile
    /\ index = _create_hnsw_index
    /\ id_to_meta = <<>>
    /\ lock = NoTask
    /\ pair = NoPair
    /\ kv_data = [k \in KVKeys |-> Absent]
    /\ kv_lock = NoTask
    /\ now = 1
    /\ kv_file \in KVFileInits
    /\ pc = [t \in Tasks |-> "idle"]
    /\ op = [t \in Tasks |-> NoVal]
    /\ loc = [t \in Tasks |-> LocInit]
    /\ ret = [t \in Tasks |-> RetNone]
    /\ cur = NoTask

InitKV == InitKVOf({"kvfile"})

SpecKV == InitKV /\ [][KVFileNext]_vars

\* finalize, lines 181-188: only a namespace ending in "_cache" is persisted
KVFinalizeCall(t) ==
    /\ Idle(t)
    /\ store \in KVFileStores
    /\ op' = [op EXCEPT ![t] = "kv_finalize"]
    /\ loc' = [loc EXCEPT ![t] = LocInit]
    /\ pc' = [pc EXCEPT ![t] = IF store = "kvcache" THEN "kv_lock" ELSE "ret"]
    /\ ret' = [ret EXCEPT ![t] = RetNone]
    /\ cur' = IF store = "kvcache" THEN After(t, "lock") ELSE t
    /\ UNCHANGED <<viVars, kvVars, pair, store, ragVars, warmVars, embedVars>>

\* line 188, inside the lock taken at line 187: index_done_callback is
\* called and waits at its own "async with self._storage_lock" (line 52);
\* waiting for a lock that is held suspends the coroutine
KVFinalizeBody(t) ==
    /\ pc[t] = "kv_body" /\ op[t] = "kv_finalize" /\ Runs(t)
    /\ kv_lock = t
    /\ op' = [op EXCEPT ![t] = "kv_finalize_cb"]
    /\ pc' = [pc EXCEPT ![t] = "kv_lock"]
    /\ cur' = NoTask
    /\ UNCHANGED <<viVars, kvVars, pair, store, ragVars, warmVars, embedVars, loc, ret>>

\* the steps a coroutine takes once it was called
KVStep(t) ==
    \/ KVUpsertBody(t)
    \/ KVGetByIdBody(t)
    \/ KVIndexDoneBody(t)
    \/ KVFinalizeBody(t)
    \/ Return(t)

KVCacheNext ==
    \E t \in Tasks :
        \/ KVUpsertCall(t)
        \/ KVAcquire(t)
        \/ KVUpsertBody(t)
        \/ KVGetByIdCall(t)
        \/ KVGetByIdBody(t)
        \/ KVIndexDoneCall(t)
        \/ KVIndexDoneBody(t)
        \/ KVFinalizeCall(t)
        \/ KVFinalizeBody(t)
        \/ Return(t)

InitCache == InitKVOf(KVFileStores)

\* the event loop runs every coroutine that can run, and asyncio.Lock wakes
\* its waiters in the order they arrived
SpecCache ==
    /\ InitCache /\ [][KVCacheNext]_vars
    /\ \A t \in Tasks : WF_vars(KVStep(t)) /\ SF_vars(KVAcquire(t))

\* the text index alone, with all its operations
InitVector == Init /\ store = "vector"

VectorOnlyNext ==
    \/ VectorNext
    \/ \E t \in Tasks : Return(t)

SpecVector == InitVector /\ [][VectorOnlyNext]_vars

Next ==
    \/ VectorNext
    \/ KVNext
    \/ \E t \in Tasks : Return(t)

Spec == Init /\ [][Next]_vars

(***************************************************************************)
(* FaissImageStorage (image_faiss_build.py).  It keeps the same fields as  *)
(* the text index; the model holds them in the same variables when the     *)
(* coroutines call the image index (store = "image").                      *)
(***************************************************************************)
\* the CLIP embedding of an image or a text
ImgEmbed(c) == [d |-> ImageDim, dir |-> DirOf(c)]

\* lines 112-116: only __id__ is compared
ImgFindFaissId(table, custom_id) ==
    LET hits == {i \in 1..Len(table) : table[i].m.id = custom_id}
    IN  IF hits = {} THEN NoSlot ELSE table[Min(hits)].k

\* an index written with the dimension of the text embedder
ImgStaleVec(c) == [d |-> Dim, dir |-> ImgEmbed(c).dir]

\* what a previous process left in image_cache: nothing, a store of the
\* declared dimension, or a store written with another dimension
ImgDiskInits ==
    { [ix |-> NoIndexFile, meta |-> NoMetaFile],
      [ix |-> WriteIndex([d |-> ImageDim, vecs |-> <<ImgEmbed("v1")>>]),
       meta |-> WriteMeta(<<[k |-> 0, m |-> MetaOf(Mk("a", "v1", NoVal), ImgEmbed("v1"))]>>)],
      [ix |-> WriteIndex([d |-> Dim, vecs |-> <<ImgStaleVec("v1"), ImgStaleVec("v1")>>]),
       meta |-> WriteMeta(<<[k |-> 0, m |-> MetaOf(Mk("a", "v1", NoVal), ImgStaleVec("v1"))],
                            [k |-> 1, m |-> MetaOf(Mk("b", "v1", NoVal), ImgStaleVec("v1"))]>>)] }

\* lines 71-79 and 92-93: the index that was read is kept whatever its dimension
ImgLoadIndex(dix) ==
    IF ~dix.exists THEN ImgCreateIndex ELSE [d |-> dix.d, vecs |-> dix.vecs]

\* lines 67-94
ImgInitialize(t) ==
    /\ Idle(t)
    /\ store = "image"
    /\ index' = ImgLoadIndex(disk_index)
    /\ id_to_meta' = LoadMeta(disk_index, disk_meta)
    /\ op' = [op EXCEPT ![t] = "img_initialize"]
    /\ loc' = [loc EXCEPT ![t] = LocInit]
    /\ pc' = [pc EXCEPT ![t] = "ret"]
    /\ ret' = [ret EXCEPT ![t] = RetNone]
    /\ cur' = t
    /\ UNCHANGED <<pair, store, ragVars, warmVars, embedVars, kvVars, lock, disk_index, disk_meta>>

\* the image records carry no source_id; an image is upserted as "a" or "b"
ImgRecords == {r \in Records : r.source_id = NoVal /\ r.id \in {"a", "b"}}

ImgUpsertInputs == {d \in UpsertInputs : Range(d) \subseteq ImgRecords}

\* records that coroutines suspended in the image upsert will still append
ImgPending ==
    LET n(t) == IF op[t] = "img_upsert" /\ pc[t] # "ret" THEN Len(loc[t].data) ELSE 0
    IN  n("t1") + n("t2")

\* lines 144-186: build the metadata, call the embedding function
ImgUpsertCall(t) ==
    /\ Idle(t)
    /\ store = "image"
    /\ \E data \in ImgUpsertInputs :
        /\ Size + ImgPending + Len(data) <= MaxSlots
        /\ op' = [op EXCEPT ![t] = "img_upsert"]
        /\ loc' = [loc EXCEPT ![t] = [LocInit EXCEPT !.data = data,
                                                     !.pre_ntotal = ntotal(index),
                                                     !.pre_table = id_to_meta]]
        /\ IF data = <<>>
           THEN /\ pc' = [pc EXCEPT ![t] = "ret"]
                /\ ret' = [ret EXCEPT ![t] = [kind |-> "ids", val |-> <<>>]]
                /\ cur' = t
           ELSE /\ pc' = [pc EXCEPT ![t] = "i_embed"]
                /\ ret' = ret
                /\ cur' = After(t, "embed")
        /\ UNCHANGED <<pair, store, ragVars, warmVars, embedVars, kvVars, viVars>>

\* lines 186-200: the embeddings arrive; a wrong count aborts the upsert
ImgUpsertEmbedded(t, count_ok) ==
    /\ pc[t] = "i_embed" /\ Runs(t)
    /\ IF count_ok
       THEN /\ loc' = [loc EXCEPT ![t].emb =
                        [i \in 1..Len(loc[t].data) |->
                            NormalizeL2(ImgEmbed(loc[t].data[i].content))]]
            /\ pc' = [pc EXCEPT ![t] = "i_scan"]
            /\ ret' = ret
       ELSE /\ loc' = loc
            /\ pc' = [pc EXCEPT ![t] = "ret"]
            /\ ret' = [ret EXCEPT ![t] = [kind |-> "ids", val |-> <<>>]]
    /\ cur' = t
    /\ UNCHANGED <<pair, store, ragVars, warmVars, embedVars, kvVars, viVars, op>>

\* lines 203-207
ImgNeedRemove(table, data) ==
    {ImgFindFaissId(table, data[i].id) : i \in 1..Len(data)} \ {NoSlot}

\* lines 203-210
ImgUpsertScan(t) ==
    /\ pc[t] = "i_scan" /\ Runs(t)
    /\ loc' = [loc EXCEPT ![t].faiss_ids = ImgNeedRemove(id_to_meta, loc[t].data)]
    /\ pc' = [pc EXCEPT ![t] =
                IF ImgNeedRemove(id_to_meta, loc[t].data) # {} THEN "irm_prep" ELSE "i_lock"]
    /\ cur' = After(t, "lock")
    /\ UNCHANGED <<pair, store, ragVars, warmVars, embedVars, kvVars, viVars, op, ret>>

\* lines 119-130: survivors and their new slots, computed before the lock
ImgRemovePrep(t) ==
    /\ pc[t] = "irm_prep" /\ Runs(t)
    /\ LET keep == KeepEntries(id_to_meta, loc[t].faiss_ids)
       IN  loc' = [loc EXCEPT ![t].new_id_to_meta = NewIdToMeta(keep),
                              ![t].vector_keep = VectorKeep(keep)]
    /\ pc' = [pc EXCEPT ![t] = "irm_lock"]
    /\ cur' = After(t, "lock")
    /\ UNCHANGED <<pair, store, ragVars, warmVars, embedVars, kvVars, viVars, op, ret>>

\* lines 132-133
ImgRemoveAcquire(t) ==
    /\ pc[t] = "irm_lock" /\ Runs(t)
    /\ lock = NoTask
    /\ lock' = t
    /\ index' = ImgCreateIndex
    /\ pc' = [pc EXCEPT ![t] = "irm_body"]
    /\ cur' = t
    /\ UNCHANGED <<pair, store, ragVars, warmVars, embedVars, kvVars, id_to_meta, disk_index,
                   disk_meta, op, loc, ret>>

\* lines 134-140: rows of another dimension make index.add raise
ImgRemoveBody(t) ==
    /\ pc[t] = "irm_body" /\ Runs(t)
    /\ lock = t
    /\ lock' = NoTask
    /\ IF AddRaises(index, loc[t].vector_keep)
       THEN /\ pc' = [pc EXCEPT ![t] = "ret"]
            /\ ret' = [ret EXCEPT ![t] = RetRaised]
            /\ cur' = t
            /\ UNCHANGED <<index, id_to_meta, disk_index, disk_meta>>
       ELSE /\ index' = IndexAdd(index, [i \in 1..Len(loc[t].vector_keep) |->
                                            NormalizeL2(loc[t].vector_keep[i])])
            /\ id_to_meta' = loc[t].new_id_to_meta
            /\ Saved(index', id_to_meta')
            /\ pc' = [pc EXCEPT ![t] = "i_lock"]
            /\ ret' = ret
            /\ cur' = After(t, "lock")
    /\ UNCHANGED <<pair, store, ragVars, warmVars, embedVars, kvVars, op, loc>>

\* lines 213-215
ImgUpsertAcquire(t) ==
    /\ pc[t] = "i_lock" /\ Runs(t)
    /\ lock = NoTask
    /\ lock' = t
    /\ pc' = [pc EXCEPT ![t] = "i_add"]
    /\ cur' = After(t, "get_index")
    /\ UNCHANGED <<pair, store, ragVars, warmVars, embedVars, kvVars, index, id_to_meta, disk_index,
                   disk_meta, op, loc, ret>>

\* lines 216-231: index.add raises when the index that was loaded has
\* another dimension than the embeddings
ImgUpsertAdd(t) ==
    /\ pc[t] = "i_add" /\ Runs(t)
    /\ lock = t
    /\ lock' = NoTask
    /\ pc' = [pc EXCEPT ![t] = "ret"]
    /\ cur' = t
    /\ IF AddRaises(index, loc[t].emb)
       THEN /\ ret' = [ret EXCEPT ![t] = RetRaised]
            /\ UNCHANGED <<index, id_to_meta, disk_index, disk_meta>>
       ELSE /\ index' = IndexAdd(index, loc[t].emb)
            /\ id_to_meta' = AddMetas(id_to_meta, loc[t].data, loc[t].emb, ntotal(index), 1)
            /\ Saved(index', id_to_meta')
            /\ ret' = [ret EXCEPT ![t] =
                        [kind |-> "ids",
                         val |-> [i \in 1..Len(loc[t].data) |-> loc[t].data[i].id]]]
    /\ UNCHANGED <<pair, store, ragVars, warmVars, embedVars, kvVars, op, loc>>

\* lines 275-295: the query embedding is given, or computed from images or
\* from a text; without any of them the query returns []
ImgQueryCall(t) ==
    /\ Idle(t)
    /\ store = "image"
    /\ \E c \in QueryTexts, top_k \in TopKs, kind \in {"embedding", "images", "text", "nothing"} :
        /\ op' = [op EXCEPT ![t] = "img_query"]
        /\ loc' = [loc EXCEPT ![t] = [LocInit EXCEPT !.qv = NormalizeL2(ImgEmbed(c)),
                                                     !.top_k = top_k,
                                                     !.q_kind = IF kind = "nothing" THEN kind
                                                                ELSE "given"]]
        /\ pc' = [pc EXCEPT ![t] = CASE kind = "embedding" -> "iq_search"
                                     [] kind = "nothing" -> "ret"
                                     [] OTHER -> "iq_embed"]
        /\ ret' = [ret EXCEPT ![t] = IF kind = "nothing"
                                     THEN [kind |-> "hits", val |-> <<>>] ELSE ret[t]]
        /\ cur' = IF kind \in {"embedding", "nothing"} THEN t ELSE After(t, "embed")
        /\ UNCHANGED <<pair, store, ragVars, warmVars, embedVars, kvVars, viVars>>

ImgQueryEmbedded(t) ==
    /\ pc[t] = "iq_embed" /\ Runs(t)
    /\ pc' = [pc EXCEPT ![t] = "iq_search"]
    /\ cur' = t
    /\ UNCHANGED <<pair, store, ragVars, warmVars, embedVars, kvVars, viVars, op, loc, ret>>

\* lines 295-323: index.search raises when the index has another dimension
\* than the query
ImgQuerySearch(t) ==
    /\ pc[t] = "iq_search" /\ Runs(t)
    /\ ret' = [ret EXCEPT ![t] =
                IF index.d # loc[t].qv.d THEN RetRaised
                ELSE [kind |-> "hits", val |-> QueryResults(index, id_to_meta, loc[t].qv, loc[t].top_k)]]
    /\ pc' = [pc EXCEPT ![t] = "ret"]
    /\ cur' = t
    /\ UNCHANGED <<pair, store, ragVars, warmVars, embedVars, kvVars, viVars, op, loc>>

ImageNext ==
    \E t \in Tasks :
        \/ ImgInitialize(t)
        \/ ImgUpsertCall(t)
        \/ \E count_ok \in BOOLEAN : ImgUpsertEmbedded(t, count_ok)
        \/ ImgUpsertScan(t)
        \/ ImgRemovePrep(t)
        \/ ImgRemoveAcquire(t)
        \/ ImgRemoveBody(t)
        \/ ImgUpsertAcquire(t)
        \/ ImgUpsertAdd(t)
        \/ ImgQueryCall(t)
        \/ ImgQueryEmbedded(t)
        \/ ImgQuerySearch(t)

\* both vector indexes; the image index is empty until initialize is called
\* (its __post_init__, lines 33-54, does not load)
InitIndex ==
    /\ WarmInit
    /\ EmbedInit
    /\ RagInit
    /\ w_loop = [c \in Callers |-> FALSE]
    /\ \/ /\ store = "text"
          /\ \E d \in DiskInits :
                /\ disk_index = d.ix
                /\ disk_meta = d.meta
                /\ index = LoadIndex(d.ix)
                /\ id_to_meta = LoadMeta(d.ix, d.meta)
       \/ /\ store = "image"
          /\ \E d \in ImgDiskInits :
                /\ disk_index = d.ix
                /\ disk_meta = d.meta
          /\ index = ImgCreateIndex
          /\ id_to_meta = <<>>
    /\ lock = NoTask
    /\ pair = NoPair
    /\ kv_data = [k \in KVKeys |-> Absent]
    /\ kv_lock = NoTask
    /\ now = 1
    /\ kv_file = NoKVFile
    /\ pc = [t \in Tasks |-> "idle"]
    /\ op = [t \in Tasks |-> NoVal]
    /\ loc = [t \in Tasks |-> LocInit]
    /\ ret = [t \in Tasks |-> RetNone]
    /\ cur = NoTask

\* upsert and query of the text index
TextNext ==
    \E t \in Tasks :
        \/ UpsertCall(t)
        \/ \E count_ok \in BOOLEAN : UpsertEmbedded(t, count_ok)
        \/ UpsertScan(t)
        \/ UpsertAcquire(t)
        \/ UpsertAdd(t)
        \/ RemovePrep(t)
        \/ RemoveAcquire(t)
        \/ RemoveBody(t)
        \/ QueryCall(t)
        \/ QueryEmbedded(t)
        \/ QuerySearch(t)

IndexNext ==
    \/ TextNext
    \/ ImageNext
    \/ \E t \in Tasks : Return(t)

SpecIndex == InitIndex /\ [][IndexNext]_vars

(***************************************************************************)
(* The embedders (rag_main.py lines 35-104): _ensure_model and initial     *)
(* are the same routine; encode calls it and then runs the model in the    *)
(* executor.                                                               *)
(***************************************************************************)
\* lines 44-46 and 55-56: the test of _model, outside the lock
EnsureModel(t) ==
    /\ Idle(t)
    /\ store = "embedder"
    /\ \E e \in Embedders :
        /\ op' = [op EXCEPT ![t] = "encode"]
        /\ loc' = [loc EXCEPT ![t] = [LocInit EXCEPT !.embedder = e]]
        /\ pc' = [pc EXCEPT ![t] = IF _model[e] THEN "e_encode" ELSE "e_lock"]
        /\ cur' = IF _model[e] THEN After(t, "embed")
                  ELSE IF _load_lock[e] = NoTask THEN t ELSE NoTask
        /\ UNCHANGED <<viVars, kvVars, pair, store, ragVars, warmVars, embedVars, ret>>

\* lines 46-53: the lock is taken and _load is handed to the executor
LoadAcquire(t) ==
    /\ pc[t] = "e_lock" /\ Runs(t)
    /\ _load_lock[loc[t].embedder] = NoTask
    /\ _load_lock' = [_load_lock EXCEPT ![loc[t].embedder] = t]
    /\ loads' = [loads EXCEPT ![loc[t].embedder] = @ + 1]
    /\ pc' = [pc EXCEPT ![t] = "e_load"]
    /\ cur' = After(t, "embed")
    /\ UNCHANGED <<viVars, kvVars, pair, store, ragVars, warmVars, _model, op, loc, ret>>

\* line 53: the model arrives, the lock is released, encode goes on (lines 57-70)
LoadDone(t) ==
    /\ pc[t] = "e_load" /\ Runs(t)
    /\ _model' = [_model EXCEPT ![loc[t].embedder] = TRUE]
    /\ _load_lock' = [_load_lock EXCEPT ![loc[t].embedder] = NoTask]
    /\ pc' = [pc EXCEPT ![t] = "e_encode"]
    /\ cur' = After(t, "embed")
    /\ UNCHANGED <<viVars, kvVars, pair, store, ragVars, warmVars, loads, op, loc, ret>>

\* line 70: the executor returns the embeddings
EncodeDone(t) ==
    /\ pc[t] = "e_encode" /\ Runs(t)
    /\ pc' = [pc EXCEPT ![t] = "ret"]
    /\ ret' = [ret EXCEPT ![t] = [kind |-> "embeddings", val |-> <<>>]]
    /\ cur' = t
    /\ UNCHANGED <<viVars, kvVars, pair, store, ragVars, warmVars, embedVars, op, loc>>

EmbedNext ==
    \E t \in Tasks :
        \/ EnsureModel(t)
        \/ LoadAcquire(t)
        \/ LoadDone(t)
        \/ EncodeDone(t)
        \/ Return(t)

InitEmbed ==
    /\ WarmInit
    /\ EmbedInit
    /\ RagInit
    /\ w_loop = [c \in Callers |-> FALSE]
    /\ store = "embedder"
    /\ disk_index = NoIndexFile
    /\ disk_meta = NoMetaFile
    /\ index = LoadIndex(NoIndexFile)
    /\ id_to_meta = LoadMeta(NoIndexFile, NoMetaFile)
    /\ lock = NoTask
    /\ pair = NoPair
    /\ kv_data = [k \in KVKeys |-> Absent]
    /\ kv_lock = NoTask
    /\ now = 1
    /\ kv_file = NoKVFile
    /\ pc = [t \in Tasks |-> "idle"]
    /\ op = [t \in Tasks |-> NoVal]
    /\ loc = [t \in Tasks |-> LocInit]
    /\ ret = [t \in Tasks |-> RetNone]
    /\ cur = NoTask

SpecEmbed == InitEmbed /\ [][EmbedNext]_vars

(***************************************************************************)
(* warmup_vanilla_rag (rag_main.py lines 519-592).  Each `with             *)
(* _warmup_lock` block is one step; threads interleave between the blocks. *)
(* A caller without a running loop runs _runner inside asyncio.run; a      *)
(* caller on a loop schedules it with create_task on its own loop, where   *)
(* it runs once the caller has returned to the loop.                       *)
(***************************************************************************)
\* a _runner that is scheduled or executing
Active(r) == runner[r].st \in {"scheduled", "body", "else", "finally"}

Live == \E r \in Attempts : Active(r)

\* attempts that have been created
Launched == Cardinality({r \in Attempts : runner[r].st # "unused"})

\* callers that passed the first lock block and have not created their _runner
Starting == Cardinality({c \in Callers : w_pc[c] \in {"check_task", "start_sync", "schedule"}})

NextAttempt == Launched + 1

\* task.done()
Done(task) == runner[task].st = "done"

\* the call returns; `live` and `complete` keep what the caller leaves behind
Returned(c, kind, val, via, live) ==
    /\ w_pc' = [w_pc EXCEPT ![c] = "returned"]
    /\ w_ret' = [w_ret EXCEPT ![c] =
                    [kind |-> kind, val |-> val, via |-> via,
                     live |-> live, complete |-> _warmup_complete]]

\* lines 531-540: the first lock block
WarmCall(c) ==
    /\ w_pc[c] = "idle"
    /\ _warmup_complete \/ _warmup_in_progress \/ Launched + Starting < MaxAttempts
    /\ IF _warmup_complete
       THEN /\ Returned(c, "value", NoTaskHandle, "complete", Live)
            /\ UNCHANGED <<_warmup_in_progress, w_task>>
       ELSE IF _warmup_in_progress
       THEN /\ Returned(c, "value", _warmup_task, "in_progress", Live)
            /\ UNCHANGED <<_warmup_in_progress, w_task>>
       ELSE /\ _warmup_in_progress' = TRUE
            /\ w_task' = [w_task EXCEPT ![c] = _warmup_task]
            /\ w_pc' = [w_pc EXCEPT ![c] = "check_task"]
            /\ w_ret' = w_ret
    /\ UNCHANGED <<storeVars, ragVars, embedVars, _warmup_task, _warmup_complete, w_loop, runner>>

\* lines 542 and 576-578: an unfinished task is returned; otherwise the
\* running loop decides how _runner is started
WarmCheckTask(c) ==
    /\ w_pc[c] = "check_task"
    /\ w_pc' = [w_pc EXCEPT ![c] =
                IF w_task[c] # NoTaskHandle /\ ~Done(w_task[c]) THEN "reset"
                ELSE IF w_loop[c] THEN "schedule" ELSE "start_sync"]
    /\ UNCHANGED <<storeVars, ragVars, embedVars, _warmup_task, _warmup_complete, _warmup_in_progress,
                   w_loop, w_task, w_ret, runner>>

\* lines 543-546
WarmReset(c) ==
    /\ w_pc[c] = "reset"
    /\ _warmup_in_progress' = FALSE
    /\ Returned(c, "value", w_task[c], "reset", Live)
    /\ UNCHANGED <<storeVars, ragVars, embedVars, _warmup_task, _warmup_complete, w_loop, w_task, runner>>

\* line 580: asyncio.run(_runner()) starts the coroutine in the caller's thread
WarmStartSync(c) ==
    /\ w_pc[c] = "start_sync"
    /\ runner' = [runner EXCEPT ![NextAttempt] =
                    [NoRunner EXCEPT !.st = "body", !.owner = c, !.sync = TRUE,
                                     !.after_complete = _warmup_complete]]
    /\ w_task' = [w_task EXCEPT ![c] = NextAttempt]
    /\ w_pc' = [w_pc EXCEPT ![c] = "sync_wait"]
    /\ UNCHANGED <<storeVars, ragVars, embedVars, _warmup_task, _warmup_complete, _warmup_in_progress,
                   w_loop, w_ret>>

\* lines 581-584: asyncio.run has returned or raised
WarmSyncFinally(c) ==
    /\ w_pc[c] = "sync_wait"
    /\ Done(w_task[c])
    /\ _warmup_in_progress' = FALSE
    /\ IF runner[w_task[c]].exc
       THEN Returned(c, "raised", NoTaskHandle, "sync", Live)
       ELSE Returned(c, "value", NoTaskHandle, "sync", Live)
    /\ UNCHANGED <<storeVars, ragVars, embedVars, _warmup_task, _warmup_complete, w_loop, w_task, runner>>

\* lines 585-592: the second lock block of a caller on a running loop
WarmSchedule(c) ==
    /\ w_pc[c] = "schedule"
    /\ IF _warmup_complete
       THEN /\ _warmup_in_progress' = FALSE
            /\ Returned(c, "value", NoTaskHandle, "schedule_complete", Live)
            /\ UNCHANGED <<_warmup_task, runner, w_task>>
       ELSE /\ runner' = [runner EXCEPT ![NextAttempt] =
                            [NoRunner EXCEPT !.st = "scheduled", !.owner = c,
                                             !.after_complete = _warmup_complete]]
            /\ _warmup_task' = NextAttempt
            /\ w_task' = [w_task EXCEPT ![c] = NextAttempt]
            /\ Returned(c, "value", NextAttempt, "scheduled", TRUE)
            /\ UNCHANGED _warmup_in_progress
    /\ UNCHANGED <<storeVars, ragVars, embedVars, _warmup_complete, w_loop>>

\* the caller takes the result and may call again
WarmReturn(c) ==
    /\ w_pc[c] = "returned"
    /\ w_pc' = [w_pc EXCEPT ![c] = "idle"]
    /\ w_ret' = [w_ret EXCEPT ![c] = NoRet]
    /\ w_task' = [w_task EXCEPT ![c] = NoTaskHandle]
    /\ UNCHANGED <<storeVars, ragVars, embedVars, _warmup_task, _warmup_complete, _warmup_in_progress,
                   w_loop, runner>>

\* the loop of the owner can run a coroutine when the owner is not inside
\* the synchronous call
OnLoop(r) == runner[r].sync \/ w_pc[runner[r].owner] \in {"idle", "returned"}

\* the loop starts the scheduled task
RunnerStart(r) ==
    /\ runner[r].st = "scheduled"
    /\ OnLoop(r)
    /\ runner' = [runner EXCEPT ![r].st = "body"]
    /\ UNCHANGED <<storeVars, ragVars, embedVars, _warmup_task, _warmup_complete, _warmup_in_progress,
                   w_pc, w_loop, w_task, w_ret>>

\* lines 550-567: the warmup body finishes or raises
RunnerBody(r, ok) ==
    /\ runner[r].st = "body"
    /\ OnLoop(r)
    /\ runner' = [runner EXCEPT ![r].st = IF ok THEN "else" ELSE "finally",
                                ![r].exc = ~ok]
    /\ UNCHANGED <<storeVars, ragVars, embedVars, _warmup_task, _warmup_complete, _warmup_in_progress,
                   w_pc, w_loop, w_task, w_ret>>

\* lines 568-570
RunnerElse(r) ==
    /\ runner[r].st = "else"
    /\ OnLoop(r)
    /\ _warmup_complete' = TRUE
    /\ runner' = [runner EXCEPT ![r].st = "finally"]
    /\ UNCHANGED <<storeVars, ragVars, embedVars, _warmup_task, _warmup_in_progress,
                   w_pc, w_loop, w_task, w_ret>>

\* lines 571-574; `left` keeps the state of the manager the block leaves
RunnerFinally(r) ==
    /\ runner[r].st = "finally"
    /\ OnLoop(r)
    /\ _warmup_task' = NoTaskHandle
    /\ _warmup_in_progress' = FALSE
    /\ runner' = [runner EXCEPT ![r].st = "done",
                                ![r].left = <<_warmup_in_progress', _warmup_task',
                                              _warmup_complete>>]
    /\ UNCHANGED <<storeVars, ragVars, embedVars, _warmup_complete, w_pc, w_loop, w_task, w_ret>>

WarmNext ==
    \/ \E c \in Callers :
        \/ WarmCall(c)
        \/ WarmCheckTask(c)
        \/ WarmReset(c)
        \/ WarmStartSync(c)
        \/ WarmSyncFinally(c)
        \/ WarmSchedule(c)
        \/ WarmReturn(c)
    \/ \E r \in Attempts :
        \/ RunnerStart(r)
        \/ \E ok \in BOOLEAN : RunnerBody(r, ok)
        \/ RunnerElse(r)
        \/ RunnerFinally(r)

\* every calling thread either runs an event loop or does not
InitWarm ==
    /\ WarmInit
    /\ EmbedInit
    /\ RagInit
    /\ w_loop \in [Callers -> BOOLEAN]
    /\ store = "warmup"
    /\ disk_index = NoIndexFile
    /\ disk_meta = NoMetaFile
    /\ index = LoadIndex(NoIndexFile)
    /\ id_to_meta = LoadMeta(NoIndexFile, NoMetaFile)
    /\ lock = NoTask
    /\ pair = NoPair
    /\ kv_data = [k \in KVKeys |-> Absent]
    /\ kv_lock = NoTask
    /\ now = 1
    /\ kv_file = NoKVFile
    /\ pc = [t \in Tasks |-> "idle"]
    /\ op = [t \in Tasks |-> NoVal]
    /\ loc = [t \in Tasks |-> LocInit]
    /\ ret = [t \in Tasks |-> RetNone]
    /\ cur = NoTask

SpecWarm == InitWarm /\ [][WarmNext]_vars

(***************************************************************************)
(* Claims about the text Vector Index.                                     *)
(***************************************************************************)
CountId(table, x) == Cardinality({i \in 1..Len(table) : table[i].m.id = x})

ContentsOf(table, x) == {table[i].m.content : i \in {j \in 1..Len(table) : table[j].m.id = x}}

Completed(t, o) == pc[t] = "ret" /\ op[t] = o /\ ret[t].kind # "raised"

\* C1: at most one metadata slot carries a given __id__; after an upsert of
\* IDs that were present, each has exactly one entry with the new content
\* and ntotal is what it was before the upsert.
C1_UniqueId ==
    /\ \A x \in Keys : CountId(id_to_meta, x) <= 1
    /\ \A t \in Tasks :
        (Completed(t, "upsert") /\ ret[t].val # <<>>) =>
            /\ \A i \in 1..Len(loc[t].data) :
                CountId(loc[t].pre_table, loc[t].data[i].id) >= 1 =>
                    /\ CountId(id_to_meta, loc[t].data[i].id) = 1
                    /\ ContentsOf(id_to_meta, loc[t].data[i].id) = {loc[t].data[i].content}
            /\ (\A i \in 1..Len(loc[t].data) :
                    CountId(loc[t].pre_table, loc[t].data[i].id) >= 1)
                => ntotal(index) = loc[t].pre_ntotal

Quiescent == \A t \in Tasks : pc[t] \in {"idle", "ret", "u_embed", "q_embed"}

\* C2: in every quiescent state the slot keys of the metadata table are
\* exactly 0..ntotal-1.
C2_SlotsDense ==
    Quiescent => KeysOf(id_to_meta) = 0..(ntotal(index) - 1)

\* C3: after delete(ids) completes, get_by_id(x) is None for every x in ids.
C3_DeletedNotRetrievable ==
    \A t \in Tasks :
        Completed(t, "delete") =>
            \A i \in 1..Len(loc[t].ids) :
                get_by_id(id_to_meta, loc[t].ids[i]).kind = "none"

PresentIds(table, ids) == {x \in Range(ids) : CountId(table, x) >= 1}

\* C4: after delete(ids) completes, ntotal is ntotal before the call minus
\* the number of IDs of ids that were record IDs; when none was, index and
\* metadata are unchanged.
C4_DeleteCount ==
    \A t \in Tasks :
        Completed(t, "delete") =>
            /\ ntotal(index) =
                 loc[t].pre_ntotal - Cardinality(PresentIds(loc[t].pre_table, loc[t].ids))
            /\ PresentIds(loc[t].pre_table, loc[t].ids) = {} =>
                 /\ id_to_meta = loc[t].pre_table
                 /\ ntotal(index) = loc[t].pre_ntotal

\* a mutation of u has changed the store and has not finished: the index is
\* replaced and the table is not, or the old entries of a replacing upsert are
\* removed and the new ones are not added
InFlight(u) ==
    \/ pc[u] = "rm_body"
    \/ pc[u] \in {"u_lock", "u_add"} /\ loc[u].faiss_ids # {}

CountIn(seq, x) == Cardinality({i \in 1..Len(seq) : seq[i] = x})

\* C6: two upserts with disjoint ID sets that were in flight together both
\* succeed and leave what the store held plus both ID sets, each ID once; an
\* upsert into the KV store leaves what it held plus the upserted keys.
C6_DisjointUpserts ==
    /\ (pair.active /\ pair.disjoint) => ~pair.raised
    /\ (pair.active /\ pair.disjoint /\ pair.left = 0) =>
        /\ ntotal(index) = Len(id_to_meta)
        /\ \A x \in Keys :
            CountId(id_to_meta, x) =
                IF x \in pair.ids THEN 1 ELSE CountIn(pair.base, x)
    /\ \A t \in Tasks :
        (Completed(t, "kv_upsert") /\ loc[t].kv_in # <<>>) =>
            /\ KVKeysOf(kv_data) =
                 KVKeysOf(loc[t].pre_kv[1]) \cup {loc[t].kv_in[i].k : i \in 1..Len(loc[t].kv_in)}
            /\ \A i \in 1..Len(loc[t].kv_in) :
                 kv_data[loc[t].kv_in[i].k].content = loc[t].kv_in[i].content
            /\ \A k \in KVKeys :
                 k \notin {loc[t].kv_in[i].k : i \in 1..Len(loc[t].kv_in)} =>
                    kv_data[k] = loc[t].pre_kv[1][k]

(***************************************************************************)
(* Claims about the warmup manager.                                        *)
(***************************************************************************)
\* C7: at most one _runner is scheduled or executing at any time, and no
\* _runner is started once _warmup_complete is true.
C7_SingleFlight ==
    /\ Cardinality({r \in Attempts : Active(r)}) <= 1
    /\ \A r \in Attempts : ~runner[r].after_complete

\* C8: a call that finds _warmup_in_progress true while a _runner is scheduled
\* or executing is handed a task, never None.
C8_HandleInProgress ==
    \A c \in Callers :
        (w_pc[c] = "returned" /\ w_ret[c].via = "in_progress" /\ w_ret[c].live)
            => w_ret[c].val # NoTaskHandle

\* the manager state NotStarted: <<_warmup_in_progress, _warmup_task, _warmup_complete>>
NotStarted == <<FALSE, NoTaskHandle, FALSE>>

\* C9: a _runner that raised leaves the manager NotStarted, and the caller
\* whose asyncio.run executed it gets the exception.
C9_FailureResets ==
    /\ \A r \in Attempts :
        (runner[r].st = "done" /\ runner[r].exc) => runner[r].left = NotStarted
    /\ \A c \in Callers :
        (w_pc[c] = "returned" /\ w_ret[c].via = "sync") =>
            (w_ret[c].kind = "raised" <=> runner[w_task[c]].exc)

\* C10: a call made with no running loop returns only when the warmup has
\* completed or by raising, and never while a _runner is scheduled or executing.
C10_SyncReturnsAfterCompletion ==
    \A c \in Callers :
        (w_pc[c] = "returned" /\ ~w_loop[c]) =>
            \/ w_ret[c].kind = "raised"
            \/ w_ret[c].complete /\ ~w_ret[c].live

(***************************************************************************)
(* Claims about the embedders.                                             *)
(***************************************************************************)
\* C11: the model-loading routine of each embedder is executed at most once.
C11_LoadOnce ==
    \A e \in Embedders : loads[e] <= 1

(***************************************************************************)
(* Claims about loading, aborting and persisting.                          *)
(***************************************************************************)
\* the index file on disk was written with another dimension
StaleOnDisk == disk_index.exists /\ disk_index.d # Dim

\* C12: initialize on files whose index has another dimension does not raise
\* and yields an empty store of the declared dimension: ntotal is 0, the
\* metadata table is empty and no ID is retrievable.
C12_DimensionGuard ==
    \A t \in Tasks :
        (pc[t] = "ret" /\ op[t] = "initialize" /\ StaleOnDisk) =>
            /\ ret[t].kind # "raised"
            /\ index.d = Dim
            /\ ntotal(index) = 0
            /\ id_to_meta = <<>>
            /\ \A x \in Keys : get_by_id(id_to_meta, x).kind = "none"

\* C13: FaissImageStorage.initialize on files whose index has another
\* dimension yields an empty index of the declared image dimension.
C13_ImageDimensionGuard ==
    \A t \in Tasks :
        (pc[t] = "ret" /\ op[t] = "img_initialize"
            /\ disk_index.exists /\ disk_index.d # ImageDim) =>
                /\ index.d = ImageDim
                /\ ntotal(index) = 0
                /\ id_to_meta = <<>>

\* C14: an upsert whose embedding count differs from its record count
\* aborts: it returns an empty list and none of its steps changes the
\* index, the table or the persisted files (text and image index).
C14_CountMismatchAborts ==
    [][\A t \in Tasks :
        /\ (pc[t] \in {"u_embed", "i_embed"} /\ pc'[t] = "ret") =>
                /\ ret'[t] = [kind |-> "ids", val |-> <<>>]
                /\ UNCHANGED <<index, id_to_meta, disk_index, disk_meta>>
        /\ (pc[t] = "idle" /\ pc'[t] \in {"u_embed", "i_embed"}) =>
                UNCHANGED <<index, id_to_meta, disk_index, disk_meta>>]_vars

\* an upsert aborted although one of its IDs was in the table
C14_Witness ==
    \E t \in Tasks :
        /\ pc[t] = "ret" /\ op[t] = "upsert"
        /\ ret[t] = [kind |-> "ids", val |-> <<>>]
        /\ loc[t].data # <<>>
        /\ NeedRemove(id_to_meta, loc[t].data) # {}
        /\ disk_index = WriteIndex(index)

\* C15: after index_done_callback the in-memory map equals the file just
\* written; a value with an unpaired surrogate does not make the write
\* raise, and get_by_id then returns the sanitized string.
C15_CallbackSyncsFile ==
    \A t \in Tasks :
        (pc[t] = "ret" /\ op[t] = "kv_index_done") =>
            /\ ret[t].kind # "raised"
            /\ kv_file.exists
            /\ kv_data = kv_file.data
            /\ \A k \in KVKeys :
                loc[t].pre_kv[1][k].present =>
                    /\ KVRecord(kv_data, k).kind = "rec"
                    /\ KVRecord(kv_data, k).val.content =
                            _sanitize_string_for_json(loc[t].pre_kv[1][k].content)
                    /\ KVRecord(kv_data, k).val.content # Dirty

\* a callback has written a map that held a value with an unpaired surrogate
C15_Witness ==
    \E t \in Tasks :
        /\ pc[t] = "ret" /\ op[t] = "kv_index_done"
        /\ \E k \in KVKeys : loc[t].pre_kv[1][k].present /\ loc[t].pre_kv[1][k].content = Dirty

\* C16: KV upsert and delete change only the in-memory map; the backing
\* file changes only in index_done_callback, which writes the whole map.
C16_FileOnlyOnCallback ==
    [][/\ \A t \in Tasks :
            (pc[t] = "kv_body" /\ op[t] \in {"kv_upsert", "kv_delete"}) =>
                kv_file' = kv_file
       /\ kv_file' # kv_file =>
            /\ \E t \in Tasks : /\ pc[t] = "kv_body" /\ op[t] = "kv_index_done"
                                /\ pc'[t] = "ret"
            /\ kv_file'.exists
            /\ kv_file'.data = _sanitize_for_encoding(kv_data)]_vars

\* an upsert has completed and the file still holds the older map
C16_Witness ==
    \E t \in Tasks :
        /\ pc[t] = "ret" /\ op[t] = "kv_upsert"
        /\ loc[t].kv_in # <<>>
        /\ kv_file.exists
        /\ kv_file.data # kv_data

\* C17: after a successful drop the store is empty and the emptiness is
\* persisted: a later initialize() yields an empty store.
C17_DropDurable ==
    \A t \in Tasks :
        (pc[t] = "ret" /\ op[t] = "kv_drop" /\ ret[t].kind = "status") =>
            /\ KVKeysOf(kv_data) = {}
            /\ KVKeysOf(load_json(kv_file)) = {}

\* C18: after a completed upsert, delete or drop of the vector index the
\* files reflect the memory: initializing again from them yields the same
\* ntotal and the same table, and after drop an empty store.
C18_FilesReflectMemory ==
    \A t \in Tasks :
        /\ (Completed(t, "upsert") \/ Completed(t, "delete") \/ Completed(t, "drop")) =>
                /\ ntotal(LoadIndex(disk_index)) = ntotal(index)
                /\ LoadMeta(disk_index, disk_meta) = id_to_meta
        /\ Completed(t, "drop") =>
                /\ ntotal(LoadIndex(disk_index)) = 0
                /\ LoadMeta(disk_index, disk_meta) = <<>>

\* a query of either index that has searched and returned
Searched(t) ==
    /\ pc[t] = "ret" /\ op[t] \in {"query", "img_query"}
    /\ ret[t].kind = "hits" /\ loc[t].q_kind # "nothing"

\* the candidates index.search gave the query of t
Candidates(t) == Search(index, loc[t].qv, loc[t].top_k)

\* C19: a query returns exactly the candidates whose slot is not -1 and
\* whose similarity is at least the threshold, a candidate at exactly the
\* threshold included, and never more than top_k entries.
C19_QueryFilter ==
    \A t \in Tasks :
        Searched(t) =>
            LET cands == Candidates(t)
                hits == ret[t].val
            IN  /\ Len(hits) <= loc[t].top_k
                /\ {hits[i].slot : i \in 1..Len(hits)} =
                        {cands[i].idx : i \in {j \in 1..Len(cands) :
                                                /\ cands[j].idx # -1
                                                /\ cands[j].dist >= Threshold}}
                /\ \A i, j \in 1..Len(hits) : i # j => hits[i].slot # hits[j].slot
                /\ \A i \in 1..Len(hits) : hits[i].distance >= Threshold

\* a query met a candidate at exactly the threshold, one just below it and
\* the padding of an index with fewer than top_k vectors
C19_Witness ==
    \E t \in Tasks :
        /\ Searched(t)
        /\ \E i, j, k \in 1..Len(Candidates(t)) :
                /\ Candidates(t)[i].idx # -1 /\ Candidates(t)[i].dist = Threshold
                /\ Candidates(t)[j].idx # -1 /\ Candidates(t)[j].dist = Threshold - 1
                /\ Candidates(t)[k].idx = -1
        /\ \E i \in 1..Len(ret[t].val) : ret[t].val[i].distance = Threshold

\* the result of a query for the content of record r with top_k = k holds the
\* ID of r with a similarity of at least the threshold
Finds(r, k) ==
    \E i \in 1..Len(QueryResults(index, id_to_meta, NormalizeL2(Embed(r.content)), k)) :
        LET h == QueryResults(index, id_to_meta, NormalizeL2(Embed(r.content)), k)[i]
        IN  h.id = r.id /\ h.distance >= Threshold

\* an upsert of records has just returned their IDs
JustUpserted(t) ==
    /\ pc[t] = "ret" /\ op[t] = "upsert"
    /\ ret[t].kind = "ids" /\ ret[t].val # <<>>

\* C20: a record that has just been upserted is found by a query for its own
\* content, whatever top_k >= 1 and whatever else the index holds.
C20_RoundTrip ==
    \A t \in Tasks :
        JustUpserted(t) =>
            \A i \in 1..Len(loc[t].data), k \in TopKs : Finds(loc[t].data[i], k)

\* vectors of the index that are as near to the content of r as r itself
Rivals(r) ==
    Cardinality({j \in 1..ntotal(index) :
        Similarity(index.vecs[j], NormalizeL2(Embed(r.content))) >=
            Similarity(NormalizeL2(Embed(r.content)), NormalizeL2(Embed(r.content)))})

\* C20 (as amended): a record that has just been upserted is found by a
\* query for its own content when top_k is at least the number of indexed
\* vectors that are as similar to the query as the record itself.
C20_RoundTripWithinTopK ==
    \A t \in Tasks :
        JustUpserted(t) =>
            \A i \in 1..Len(loc[t].data), k \in TopKs :
                k >= Rivals(loc[t].data[i]) => Finds(loc[t].data[i], k)

\* an upsert into an index that holds other records has returned, and a
\* record of it is the only vector with its content
C20_Witness ==
    \E t \in Tasks :
        /\ JustUpserted(t)
        /\ ntotal(index) >= 2
        /\ \E i \in 1..Len(loc[t].data) :
            /\ Rivals(loc[t].data[i]) = 1
            /\ Finds(loc[t].data[i], 1)

\* C29: create_time of a key that stays in the store never changes: after a
\* later upsert of the key get_by_id returns the original create_time, with
\* an update_time of the latest upsert.
C29_CreateTimeKept ==
    \A t \in Tasks :
        (pc[t] = "ret" /\ op[t] = "kv_upsert" /\ loc[t].kv_in # <<>>) =>
            \A i \in 1..Len(loc[t].kv_in) :
                LET k == loc[t].kv_in[i].k
                    pre == loc[t].pre_kv[1]
                IN  pre[k].present =>
                        /\ KVRecord(kv_data, k).val.create_time =
                                KVRecord(pre, k).val.create_time
                        /\ KVRecord(kv_data, k).val.update_time >=
                                KVRecord(pre, k).val.update_time

\* C28: finalize terminates: a call of finalize returns, for a namespace
\* ending in "_cache" after index_done_callback has written the file; it
\* never waits forever for the store's own lock.
C28_FinalizeTerminates ==
    \A t \in Tasks :
        (op[t] \in {"kv_finalize", "kv_finalize_cb"}) ~>
            (pc[t] = "ret" /\ op[t] \in {"kv_finalize", "kv_finalize_cb"})

(***************************************************************************)
(* VanillaRAG._chunk_text, token mode                                      *)
(***************************************************************************)
MaxTokens == 4

MaxChunk == 3

\* a token decodes to a word or to white space
Tokens == {"w", " "}

\* range(start, stop, step) for a positive step
RECURSIVE range(_, _, _)
range(start, stop, step) ==
    IF start >= stop THEN <<>> ELSE <<start>> \o range(start + step, stop, step)

\* the third argument of range at line 258
StepNoOverlap(chunk_token_size, chunk_overlap) == chunk_token_size

ChunkStep(chunk_token_size, chunk_overlap) == chunk_token_size - chunk_overlap

\* token[start : start + chunk_token_size]
Window(token, start, chunk_token_size) ==
    SubSeq(token, start + 1, Min({start + chunk_token_size, Len(token)}))

\* str.strip() of the decoded window: white space at both ends is dropped
RECURSIVE Strip(_)
Strip(text) ==
    IF text = <<>> THEN <<>>
    ELSE IF Head(text) = " " THEN Strip(Tail(text))
    ELSE IF text[Len(text)] = " " THEN Strip(SubSeq(text, 1, Len(text) - 1))
    ELSE text

\* lines 258-266
_chunk_text(token, chunk_token_size, chunk_overlap) ==
    LET starts == range(0, Len(token), ChunkStep(chunk_token_size, chunk_overlap))
    IN  [i \in 1..Len(starts) |->
            [content |-> Strip(Window(token, starts[i], chunk_token_size)),
             chunk_length |-> Min({chunk_token_size, Len(Window(token, starts[i], chunk_token_size))}),
             chunk_index |-> starts[i]]]

ChunkCalls ==
    { [fn |-> "_chunk_text", token |-> tk, chunk_token_size |-> sz, chunk_overlap |-> ov] :
        tk \in UNION {[1..n -> Tokens] : n \in 0..MaxTokens},
        sz \in 1..MaxChunk, ov \in 0..(MaxChunk - 1) }

\* the stores after construction with nothing on disk, none of them in use
NoStores(mode) ==
    /\ PipeIdle
    /\ WarmInit
    /\ EmbedInit
    /\ w_loop = [c \in Callers |-> FALSE]
    /\ store = mode
    /\ disk_index = NoIndexFile
    /\ disk_meta = NoMetaFile
    /\ index = LoadIndex(NoIndexFile)
    /\ id_to_meta = LoadMeta(NoIndexFile, NoMetaFile)
    /\ lock = NoTask
    /\ pair = NoPair
    /\ kv_data = [k \in KVKeys |-> Absent]
    /\ kv_lock = NoTask
    /\ now = 1
    /\ kv_file = NoKVFile
    /\ pc = [t \in Tasks |-> "idle"]
    /\ op = [t \in Tasks |-> NoVal]
    /\ loc = [t \in Tasks |-> LocInit]
    /\ ret = [t \in Tasks |-> RetNone]
    /\ cur = NoTask

InitChunk ==
    /\ NoStores("chunk")
    /\ call \in {c \in ChunkCalls : c.chunk_overlap < c.chunk_token_size}
    /\ result = NoResult

ChunkText ==
    /\ store = "chunk"
    /\ ~result.done
    /\ result' = [done |-> TRUE,
                  value |-> _chunk_text(call.token, call.chunk_token_size, call.chunk_overlap)]
    /\ UNCHANGED <<storeVars, warmVars, embedVars, call, pipeVars>>

SpecChunk == InitChunk /\ [][ChunkText]_vars

\* the token positions shared by chunk i and the chunk after it
Repeated(r, i) ==
    {p \in 0..MaxTokens + 1 :
        /\ r[i].chunk_index <= p /\ p < r[i].chunk_index + r[i].chunk_length
        /\ r[i + 1].chunk_index <= p /\ p < r[i + 1].chunk_index + r[i + 1].chunk_length}

\* windows at 0, s, 2s, ... below the token count; chunk_index is the start
\* offset, chunk_length the token count of the window, at most chunk_token_size;
\* every token lies in a chunk
Windows(r) ==
    LET n == Len(call.token)
        s == call.chunk_token_size - call.chunk_overlap
    IN  /\ \A i \in 1..Len(r) :
            /\ r[i].chunk_index = (i - 1) * s
            /\ r[i].chunk_index < n
            /\ r[i].chunk_length = Len(Window(call.token, r[i].chunk_index, call.chunk_token_size))
            /\ r[i].chunk_length <= call.chunk_token_size
            /\ r[i].content = Strip(Window(call.token, r[i].chunk_index, call.chunk_token_size))
        /\ Len(r) * s >= n
        /\ \A p \in 0..n - 1 :
            \E i \in 1..Len(r) :
                r[i].chunk_index <= p /\ p < r[i].chunk_index + r[i].chunk_length

\* C26 as stated: the chunks are the windows, and two consecutive windows
\* always repeat exactly chunk_overlap tokens.
C26_Chunks ==
    result.done =>
        /\ Windows(result.value)
        /\ \A i \in 1..Len(result.value) - 1 :
            Cardinality(Repeated(result.value, i)) = call.chunk_overlap

\* C26, amended: the chunks are the windows, and two consecutive windows
\* repeat chunk_overlap tokens, or the whole later window when that is shorter
\* than chunk_overlap (the earlier window then ends at the last token).
C26_ChunksTail ==
    result.done =>
        /\ Windows(result.value)
        /\ \A i \in 1..Len(result.value) - 1 :
            Cardinality(Repeated(result.value, i)) =
                Min({call.chunk_overlap, result.value[i + 1].chunk_length})

\* a text of several windows, the last ones shorter than the overlap
C26_Witness ==
    /\ result.done
    /\ call.chunk_overlap > 0
    /\ Len(result.value) >= 3
    /\ result.value[Len(result.value)].chunk_length < call.chunk_overlap

\* every slot of the index has metadata, and the vector at the slot is the
\* normalized vector recorded in that metadata
Aligned(ix, table) ==
    /\ \A i \in 1..Len(table) :
        /\ table[i].k < ntotal(ix)
        /\ ix.vecs[table[i].k + 1] = NormalizeL2(table[i].m.vector)
    /\ \A slot \in 0..ntotal(ix) - 1 : \E i \in 1..Len(table) : table[i].k = slot

\* the coroutine t leaves the rebuild of the index
Rebuilt(t) == pc[t] \in {"rm_body", "irm_body"} /\ pc'[t] # pc[t]

\* C27: a rebuild keeps the entries that are not removed in their order,
\* renumbers them 0..k-1 with their metadata unchanged, and leaves at every
\* slot the normalized vector of that slot's metadata; the entries an upsert
\* appends are aligned with their vectors in the same way.
C27_RebuildPreserves ==
    [][\A t \in Tasks :
        /\ Rebuilt(t) =>
            LET keep == KeepEntries(id_to_meta, loc[t].faiss_ids)
            IN  /\ Len(id_to_meta') = Len(keep)
                /\ \A i \in 1..Len(keep) :
                    id_to_meta'[i].k = i - 1 /\ id_to_meta'[i].m = keep[i].m
                /\ Aligned(index', id_to_meta')
        /\ (pc[t] \in {"u_add", "i_add"} /\ pc'[t] = "ret" /\ ret'[t].kind = "ids") =>
            \A i \in 1..Len(loc[t].data) :
                \E j \in 1..Len(id_to_meta') :
                    /\ id_to_meta'[j].k = ntotal(index) + i - 1
                    /\ id_to_meta'[j].m.id = loc[t].data[i].id
                    /\ index'.vecs[id_to_meta'[j].k + 1] = NormalizeL2(id_to_meta'[j].m.vector)]_vars

(***************************************************************************)
(* VanillaRAG.query: the join of the vector hits with the KV records       *)
(***************************************************************************)
MaxHits == 3

\* vector hits as FaissVectorStorage.query returns them, nearest first; the
\* id is "" for a slot without metadata
HitsOf(ids) == [i \in 1..Len(ids) |-> [id |-> ids[i], distance |-> TopK - i]]

\* get_by_ids, kv_storage.py lines 90-103: one entry per id, None if absent
get_by_ids(d, ids) == [i \in 1..Len(ids) |-> KVRecord(d, ids[i])]

\* zip(hits, kv_records) with the pairs joined by position
ZipByPosition(hits, kv_records) ==
    [i \in 1..Min({Len(hits), Len(kv_records)}) |-> [hit |-> hits[i], kv |-> kv_records[i]]]

\* rag_main.py lines 474-500
JoinHits(hits, d) ==
    IF hits = <<>> THEN <<>>
    ELSE LET with_id == SelectSeq(hits, LAMBDA h : h.id # "")
             ids == [i \in 1..Len(with_id) |-> with_id[i].id]
             pairs == ZipByPosition(hits, get_by_ids(d, ids))
             found == SelectSeq(pairs, LAMBDA p : p.kv # RetNone)
         IN  [i \in 1..Len(found) |->
                [id |-> found[i].hit.id, content |-> found[i].kv.val.content,
                 score |-> found[i].hit.distance]]

\* any hits, with and without an id, over any contents of the KV store
JoinCalls ==
    { [fn |-> "query", hits |-> HitsOf(ids), kv |-> d] :
        ids \in UNION {[1..n -> {"a", "b", ""}] : n \in 0..MaxHits},
        d \in { [k \in KVKeys |-> IF k = "a" THEN ra ELSE IF k = "b" THEN rb ELSE Absent] :
                ra \in {Absent, Stamped(NoKVFile.data, "a", "v1", 1)},
                rb \in {Absent, Stamped(NoKVFile.data, "b", "v2", 1)} } }

InitJoin ==
    /\ NoStores("join")
    /\ call \in JoinCalls
    /\ result = NoResult

Join ==
    /\ store = "join"
    /\ ~result.done
    /\ result' = [done |-> TRUE, value |-> JoinHits(call.hits, call.kv)]
    /\ UNCHANGED <<storeVars, warmVars, embedVars, call, pipeVars>>

SpecJoin == InitJoin /\ [][Join]_vars

\* C21: every result of the join is one vector hit whose id has a KV record,
\* with the content of the record stored under the result's own id; hits
\* without a record are left out, and every hit with a record is returned.
C21_JoinById ==
    result.done =>
        /\ \A i \in 1..Len(result.value) :
            LET r == result.value[i]
            IN  /\ \E j \in 1..Len(call.hits) :
                    call.hits[j].id = r.id /\ call.hits[j].distance = r.score
                /\ r.id \in KVKeys
                /\ r.id \in KVKeys => call.kv[r.id].present
                /\ r.id \in KVKeys => r.content = call.kv[r.id].content
        /\ \A j \in 1..Len(call.hits) :
            (call.hits[j].id \in KVKeys /\ call.kv[call.hits[j].id].present) =>
                \E i \in 1..Len(result.value) : result.value[i].score = call.hits[j].distance

(***************************************************************************)
(* VanillaRAGSearchTool._arun: text results enriched with images           *)
(***************************************************************************)
MaxImages == 5

MaxResults == 2

\* VanillaRAG.image_top_k
ImageTopK == 3

\* VanillaRAGSearchTool.top_k
ToolTopK == 3

\* "top_k or self.top_k": None and 0 select the default of the tool
TopKOr(top_k) == IF top_k = 0 THEN ToolTopK ELSE top_k

\* FaissImageStorage.query(text=..., top_k=...) over an index in which
\* n_images images are near the text: the k nearest, nearest first
ImageResults(n_images, text, k) ==
    IF text = "" THEN <<>> ELSE [i \in 1..Min({k, n_images}) |-> i]

\* rag_tool.py lines 49-68: one entry per text result; queried records the
\* call of the image index made for the entry, if any
Enrich(query, top_k, results, n_images) ==
    [i \in 1..Len(results) |->
        IF results[i].linked_images
        THEN [images |-> ImageResults(n_images, query, TopKOr(top_k)),
              queried |-> <<[text |-> query, top_k |-> TopKOr(top_k)]>>]
        ELSE [images |-> <<>>, queried |-> <<>>]]

\* the caller leaves top_k out (0), or asks for one or for many chunks
ToolCalls ==
    { [fn |-> "_arun", query |-> "q", top_k |-> k, results |-> rs, n_images |-> n] :
        k \in {0, 1, MaxImages},
        rs \in UNION {[1..m -> [linked_images : BOOLEAN]] : m \in 0..MaxResults},
        n \in 0..MaxImages }

InitTool ==
    /\ NoStores("tool")
    /\ call \in ToolCalls
    /\ result = NoResult

Arun ==
    /\ store = "tool"
    /\ ~result.done
    /\ result' = [done |-> TRUE,
                  value |-> Enrich(call.query, call.top_k, call.results, call.n_images)]
    /\ UNCHANGED <<storeVars, warmVars, embedVars, call, pipeVars>>

SpecTool == InitTool /\ [][Arun]_vars

\* C22: the image index is queried only for entries with linked images, with
\* the original query text; an entry gets at most image_top_k images whatever
\* top_k the caller passed, and none if its record has no linked images.
C22_Enrichment ==
    result.done =>
        \A i \in 1..Len(result.value) :
            LET e == result.value[i]
            IN  /\ e.queried # <<>> => call.results[i].linked_images
                /\ \A j \in 1..Len(e.queried) : e.queried[j].text = call.query
                /\ Len(e.images) <= ImageTopK
                /\ ~call.results[i].linked_images => e.images = <<>>

(***************************************************************************)
(* VanillaRAG: initialize, build_from_shards and query over the KV store,  *)
(* the text index and the image index of the default service               *)
(***************************************************************************)
\* VanillaRAG.top_k
RagTopK == 5

\* what the shard directory yields in a run: no file; one text chunk; two
\* chunks and an image
ShardSets ==
    { [chunks |-> <<>>, images |-> <<>>],
      [chunks |-> <<Mk("a", "v1", NoVal)>>, images |-> <<>>],
      [chunks |-> <<Mk("a", "v1", NoVal), Mk("b", "v2", NoVal)>>,
       images |-> <<Mk("c", "v1", NoVal)>>] }

\* kv_payload: the chunks with their text, the images with content ""
KVPayload(files) ==
    [i \in 1..Len(files.chunks) |-> [k |-> files.chunks[i].id, content |-> files.chunks[i].content]]
    \o [i \in 1..Len(files.images) |-> [k |-> files.images[i].id, content |-> ""]]

\* KVStorage.upsert, lines 123-139, on the map d
KVUpserted(d, kv_in, time) ==
    [k \in KVKeys |->
        IF \E i \in 1..Len(kv_in) : kv_in[i].k = k
        THEN LET i == CHOOSE i \in 1..Len(kv_in) : kv_in[i].k = k
             IN  Stamped(d, k, kv_in[i].content, time)
        ELSE d[k]]

\* VanillaRAG.initialize, lines 200-205: each store is loaded from its files
Loaded ==
    [kv |-> load_json(kv_file),
     index |-> LoadIndex(disk_index),
     meta |-> LoadMeta(disk_index, disk_meta),
     image_index |-> ImgLoadIndex(image_disk_index),
     image_meta |-> LoadMeta(image_disk_index, image_disk_meta)]

LoadedAgain == IF loaded = "never" THEN "once" ELSE "again"

\* the rest of an upsert once the embeddings have arrived: remove the
\* entries of the incoming IDs by a rebuild, append, save; index.add raises
\* on rows of another dimension
Upserted(ix, table, data, emb, empty, rm) ==
    LET keep == KeepEntries(table, rm)
        kept == [i \in 1..Len(keep) |-> NormalizeL2(VectorKeep(keep)[i])]
    IN  IF rm # {} /\ AddRaises(empty, kept)
        THEN [raised |-> TRUE, index |-> empty, meta |-> table, saved |-> FALSE]
        ELSE LET ix1 == IF rm = {} THEN ix ELSE IndexAdd(empty, kept)
                 t1 == IF rm = {} THEN table ELSE NewIdToMeta(keep)
             IN  IF AddRaises(ix1, emb)
                 THEN [raised |-> TRUE, index |-> ix1, meta |-> t1, saved |-> rm # {}]
                 ELSE [raised |-> FALSE, index |-> IndexAdd(ix1, emb),
                       meta |-> AddMetas(t1, data, emb, ntotal(ix1), 1), saved |-> TRUE]

\* FaissVectorStorage.upsert, lines 146-176
TextUpserted(ix, table, data) ==
    Upserted(ix, table, data, [i \in 1..Len(data) |-> NormalizeL2(Embed(data[i].content))],
             _create_hnsw_index, NeedRemove(table, data))

\* FaissImageStorage.upsert, lines 188-231
ImageUpserted(ix, table, data) ==
    Upserted(ix, table, data, [i \in 1..Len(data) |-> NormalizeL2(ImgEmbed(data[i].content))],
             ImgCreateIndex, ImgNeedRemove(table, data))

\* an upsert that returned [] or was not called leaves the store as it is
Untouched(ix, table) == [raised |-> FALSE, index |-> ix, meta |-> table, saved |-> FALSE]

\* the embedding function returns one row per input, returns another number
\* of rows, or raises
Outcomes == {"ok", "mismatch", "raise"}

\* _warmup_default_service, lines 510-516: initialize, then build when the
\* text store is empty (auto_build)
WarmupService(t) ==
    /\ Idle(t)
    /\ store = "rag"
    /\ kv_data' = Loaded.kv
    /\ index' = Loaded.index
    /\ id_to_meta' = Loaded.meta
    /\ image_index' = Loaded.image_index
    /\ image_id_to_meta' = Loaded.image_meta
    /\ loaded' = LoadedAgain
    /\ op' = [op EXCEPT ![t] = "warmup"]
    /\ pc' = [pc EXCEPT ![t] = IF Loaded.meta = <<>> THEN "b_call" ELSE "ret"]
    /\ ret' = [ret EXCEPT ![t] = RetNone]
    /\ cur' = t
    /\ UNCHANGED <<lock, disk_index, disk_meta, loc, pair, store, kv_lock, now, kv_file,
                   warmVars, embedVars, call, result, image_disk_index, image_disk_meta, run>>

\* build_from_shards, lines 270-443: initialize, read the shards, upsert the
\* KV payload, enter the upsert of the text store up to its embedding call
BuildCall(t) ==
    /\ Idle(t) \/ (pc[t] = "b_call" /\ Runs(t))
    /\ store = "rag"
    /\ \E files \in ShardSets :
        /\ index' = Loaded.index
        /\ id_to_meta' = Loaded.meta
        /\ image_index' = Loaded.image_index
        /\ image_id_to_meta' = Loaded.image_meta
        /\ loaded' = LoadedAgain
        /\ op' = [op EXCEPT ![t] = "build"]
        /\ IF files.chunks = <<>> /\ files.images = <<>>
           THEN /\ kv_data' = Loaded.kv
                /\ run' = [run EXCEPT ![t] = NoRun]
                /\ pc' = [pc EXCEPT ![t] = "ret"]
                /\ ret' = [ret EXCEPT ![t] = [kind |-> "error", val |-> <<>>]]
                /\ cur' = t
           ELSE /\ kv_data' = KVUpserted(Loaded.kv, KVPayload(files), now)
                /\ run' = [run EXCEPT ![t] = [chunks |-> files.chunks, images |-> files.images,
                                              events |-> <<"kv_upsert">>]]
                /\ pc' = [pc EXCEPT ![t] = "b_text"]
                /\ ret' = [ret EXCEPT ![t] = RetNone]
                /\ cur' = NoTask
    /\ UNCHANGED <<lock, disk_index, disk_meta, loc, pair, store, kv_lock, now, kv_file,
                   warmVars, embedVars, call, result, image_disk_index, image_disk_meta>>

\* the commit callbacks, lines 447-450: write the KV file (and reload the
\* map when it was sanitized), save the text store and, with images, the
\* image store
Commit(t, text, image, done) ==
    /\ kv_file' = write_json(kv_data)
    /\ kv_data' = IF needs_reload(kv_data) THEN load_json(kv_file') ELSE kv_data
    /\ Saved(text.index, text.meta)
    /\ IF run[t].images # <<>>
       THEN /\ image_disk_index' = WriteIndex(image.index)
            /\ image_disk_meta' = WriteMeta(image.meta)
       ELSE UNCHANGED <<image_disk_index, image_disk_meta>>
    /\ run' = [run EXCEPT ![t].events =
                run[t].events \o done \o <<"kv_commit", "text_commit">>
                \o (IF run[t].images # <<>> THEN <<"image_commit">> ELSE <<>>)]

\* what an upsert that does not return leaves behind
Raise(t, done) ==
    /\ run' = [run EXCEPT ![t].events = run[t].events \o done \o <<"raised">>]
    /\ pc' = [pc EXCEPT ![t] = "ret"]
    /\ ret' = [ret EXCEPT ![t] = RetRaised]
    /\ cur' = t
    /\ UNCHANGED <<kv_data, kv_file>>

Success(t) ==
    /\ pc' = [pc EXCEPT ![t] = "ret"]
    /\ ret' = [ret EXCEPT ![t] =
                [kind |-> "success", val |-> <<Len(run[t].chunks), Len(run[t].images)>>]]
    /\ cur' = t

\* a run that calls the commit callbacks right after the text upsert, before
\* the image upsert
BuildTextEmbeddedCommitsFirst(t, outcome) ==
    /\ pc[t] = "b_text" /\ Runs(t)
    /\ store = "rag"
    /\ LET text == IF outcome = "ok" THEN TextUpserted(index, id_to_meta, run[t].chunks)
                   ELSE Untouched(index, id_to_meta)
       IN  /\ index' = text.index
           /\ id_to_meta' = text.meta
           /\ IF outcome = "raise" \/ text.raised
              THEN /\ Raise(t, <<>>)
                   /\ IF text.saved THEN Saved(text.index, text.meta)
                      ELSE UNCHANGED <<disk_index, disk_meta>>
                   /\ UNCHANGED <<image_disk_index, image_disk_meta>>
              ELSE /\ Commit(t, text, Untouched(image_index, image_id_to_meta), <<"text_upsert">>)
                   /\ IF run[t].images = <<>> THEN Success(t)
                      ELSE /\ pc' = [pc EXCEPT ![t] = "b_image"]
                           /\ cur' = NoTask
                           /\ ret' = ret
    /\ UNCHANGED <<lock, op, loc, pair, store, kv_lock, now, warmVars, embedVars, call, result,
                   image_index, image_id_to_meta, loaded>>

\* lines 443-461 after the text embeddings: the rest of the text upsert, then
\* the image upsert up to its embedding call or, without images, the commit
\* callbacks and the result
BuildTextEmbedded(t, outcome) ==
    /\ pc[t] = "b_text" /\ Runs(t)
    /\ store = "rag"
    /\ LET text == IF outcome = "ok" THEN TextUpserted(index, id_to_meta, run[t].chunks)
                   ELSE Untouched(index, id_to_meta)
       IN  /\ index' = text.index
           /\ id_to_meta' = text.meta
           /\ IF outcome = "raise" \/ text.raised
              THEN /\ Raise(t, <<>>)
                   /\ IF text.saved THEN Saved(text.index, text.meta)
                      ELSE UNCHANGED <<disk_index, disk_meta>>
                   /\ UNCHANGED <<image_disk_index, image_disk_meta>>
              ELSE IF run[t].images = <<>>
              THEN /\ Commit(t, text, Untouched(image_index, image_id_to_meta), <<"text_upsert">>)
                   /\ Success(t)
              ELSE /\ run' = [run EXCEPT ![t].events = run[t].events \o <<"text_upsert">>]
                   /\ IF text.saved THEN Saved(text.index, text.meta)
                      ELSE UNCHANGED <<disk_index, disk_meta>>
                   /\ pc' = [pc EXCEPT ![t] = "b_image"]
                   /\ cur' = NoTask
                   /\ UNCHANGED <<kv_data, kv_file, image_disk_index, image_disk_meta, ret>>
    /\ UNCHANGED <<lock, op, loc, pair, store, kv_lock, now, warmVars, embedVars, call, result,
                   image_index, image_id_to_meta, loaded>>

\* lines 445-461 after the image embeddings: the rest of the image upsert,
\* the commit callbacks, the result
BuildImageEmbedded(t, outcome) ==
    /\ pc[t] = "b_image" /\ Runs(t)
    /\ store = "rag"
    /\ LET image == IF outcome = "ok"
                    THEN ImageUpserted(image_index, image_id_to_meta, run[t].images)
                    ELSE Untouched(image_index, image_id_to_meta)
       IN  /\ image_index' = image.index
           /\ image_id_to_meta' = image.meta
           /\ IF outcome = "raise" \/ image.raised
              THEN /\ Raise(t, <<>>)
                   /\ IF image.saved
                      THEN /\ image_disk_index' = WriteIndex(image.index)
                           /\ image_disk_meta' = WriteMeta(image.meta)
                      ELSE UNCHANGED <<image_disk_index, image_disk_meta>>
                   /\ UNCHANGED <<disk_index, disk_meta>>
              ELSE /\ Commit(t, Untouched(index, id_to_meta), image, <<"image_upsert">>)
                   /\ Success(t)
    /\ UNCHANGED <<lock, op, loc, pair, store, kv_lock, now, warmVars, embedVars, call, result,
                   index, id_to_meta, loaded>>

\* VanillaRAG.query, lines 463-471: the text store embeds the query
RagQueryCall(t) ==
    /\ Idle(t)
    /\ store = "rag"
    /\ \E text \in Contents :
        /\ op' = [op EXCEPT ![t] = "rag_query"]
        /\ loc' = [loc EXCEPT ![t] = [LocInit EXCEPT !.qv = NormalizeL2(Embed(text)),
                                                     !.top_k = RagTopK]]
        /\ pc' = [pc EXCEPT ![t] = "vq_embed"]
        /\ ret' = [ret EXCEPT ![t] = RetNone]
        /\ cur' = NoTask
    /\ UNCHANGED <<viVars, kvVars, pair, store, ragVars, warmVars, embedVars>>

\* lines 471-500: search, fetch the KV records of the hits, join
RagQuerySearch(t) ==
    /\ pc[t] = "vq_embed" /\ Runs(t)
    /\ store = "rag"
    /\ ret' = [ret EXCEPT ![t] =
                [kind |-> "results",
                 val |-> JoinHits(QueryResults(index, id_to_meta, loc[t].qv, loc[t].top_k),
                                  kv_data)]]
    /\ pc' = [pc EXCEPT ![t] = "ret"]
    /\ cur' = t
    /\ UNCHANGED <<viVars, kvVars, pair, store, ragVars, warmVars, embedVars, op, loc>>

RagNext ==
    \E t \in Tasks :
        \/ WarmupService(t)
        \/ BuildCall(t)
        \/ \E outcome \in Outcomes : BuildTextEmbedded(t, outcome)
        \/ \E outcome \in Outcomes : BuildImageEmbedded(t, outcome)
        \/ RagQueryCall(t)
        \/ RagQuerySearch(t)
        \/ Return(t)

\* the files a previous process left: none, or a consistent set for chunk a
PersistedInits ==
    { [ix |-> NoIndexFile, meta |-> NoMetaFile, kv |-> NoKVFile],
      [ix |-> WriteIndex([d |-> Dim, vecs |-> <<Embed("v1")>>]),
       meta |-> WriteMeta(<<[k |-> 0, m |-> MetaOf(Mk("a", "v1", NoVal), Embed("v1"))]>>),
       kv |-> [exists |-> TRUE,
               data |-> [k \in KVKeys |-> IF k = "a" THEN Stamped(NoKVFile.data, k, "v1", 1)
                                          ELSE Absent]]] }

\* the default service after the module is imported (line 503): the text
\* store has loaded its files in __post_init__ (faiss_build.py line 67), the
\* KV store and the image store are empty until initialize is called
InitRag ==
    /\ WarmInit
    /\ EmbedInit
    /\ w_loop = [c \in Callers |-> FALSE]
    /\ call = NoCall
    /\ result = NoResult
    /\ PipeIdle
    /\ store = "rag"
    /\ \E d \in PersistedInits :
        /\ disk_index = d.ix
        /\ disk_meta = d.meta
        /\ kv_file = d.kv
        /\ index = LoadIndex(d.ix)
        /\ id_to_meta = LoadMeta(d.ix, d.meta)
    /\ lock = NoTask
    /\ pair = NoPair
    /\ kv_data = [k \in KVKeys |-> Absent]
    /\ kv_lock = NoTask
    /\ now = 1
    /\ pc = [t \in Tasks |-> "idle"]
    /\ op = [t \in Tasks |-> NoVal]
    /\ loc = [t \in Tasks |-> LocInit]
    /\ ret = [t \in Tasks |-> RetNone]
    /\ cur = NoTask

SpecRag == InitRag /\ [][RagNext]_vars

\* the IDs held by a vector store
StoredIds(table) == {table[i].m.id : i \in 1..Len(table)}

\* C23: once the stores have been initialized, every ID in the text index or
\* in the image index has an entry in the in-memory map of the KV store.
C23_IndexedHasKV ==
    loaded # "never" =>
        \A id \in StoredIds(id_to_meta) \cup StoredIds(image_id_to_meta) :
            id \in KVKeys /\ kv_data[id].present

Commits == {"kv_commit", "text_commit", "image_commit"}

\* the upserts a run has to make
Upserts(r) ==
    {"kv_upsert", "text_upsert"} \cup (IF r.images # <<>> THEN {"image_upsert"} ELSE {})

\* C24: in a run of build_from_shards a commit callback is called only after
\* the upserts into the KV store, the text index and, with images, the image
\* index have returned; a run in which an upsert raised calls no callback.
C24_CommitAfterUpserts ==
    \A t \in Tasks :
        LET e == run[t].events
        IN  /\ \A i \in 1..Len(e) :
                e[i] \in Commits =>
                    \A u \in Upserts(run[t]) : \E j \in 1..i - 1 : e[j] = u
            /\ (\E i \in 1..Len(e) : e[i] = "raised") =>
                    \A i \in 1..Len(e) : e[i] \notin Commits

\* a run with images has committed all three stores, and another run has
\* raised in an upsert
C24_Witness ==
    \E t, u \in Tasks :
        /\ run[t].events = <<"kv_upsert", "text_upsert", "image_upsert",
                             "kv_commit", "text_commit", "image_commit">>
        /\ run[u].events = <<"kv_upsert", "text_upsert", "raised">>

\* C25: the stores are loaded from disk by initialize once per process.
C25_InitializedOnce == loaded # "again"

\* C30: a run that returns "success" with n chunks and m images has all its
\* chunk IDs in the text index and all its image IDs in the image index.
C30_SuccessIndexed ==
    \A t \in Tasks :
        (pc[t] = "ret" /\ op[t] = "build" /\ ret[t].kind = "success") =>
            /\ ret[t].val = <<Len(run[t].chunks), Len(run[t].images)>>
            /\ IdsOf(run[t].chunks) \subseteq StoredIds(id_to_meta)
            /\ IdsOf(run[t].images) \subseteq StoredIds(image_id_to_meta)

====
